---- MODULE Spec2Model ----
(***************************************************************************)
(* State-machine model of the macropad firmware (circuitpython/code.py):   *)
(* the macro store, the navigation stack (group_stack), the key and        *)
(* encoder bindings, the deferred queue (delayed_macros), the persisted    *)
(* files and the serial control channel handled by the main loop of        *)
(* MacroApp.start.                                                         *)
(*                                                                         *)
(* One iteration of the main loop is split into its steps, in source       *)
(* order: connect (greeting), serial, delayed, keyevent, retrigger,        *)
(* encoder.  pc names the step the loop executes next.  The display sleep  *)
(* timer, the display refresh and the garbage collector (code.py 650-658)  *)
(* change no state modelled here and are left out.                         *)
(***************************************************************************)
EXTENDS Integers, Sequences, FiniteSets, TLC

VARIABLES
    pc,                \* position of the main loop, or "crashed"
    macro_store,       \* self.macro_store: id -> serialized node
    group_stack,       \* self.group_stack
    keys,              \* self.keys: per slot type, bound function and arguments
    enc,               \* self.encoder: on_switch / on_increased / on_decreased
    delayed_macros,    \* self.delayed_macros
    readonly,          \* self.readonly
    serial_last_state, \* self.serial_last_state
    data_error,        \* local data_error of start()
    connected,         \* usb_cdc.data.connected
    rx,                \* lengths of the lines waiting on usb_cdc.data
    rx_skip,           \* bytes of the first line already consumed
    sent,              \* messages written by the latest loop step
    req,               \* payload taken by the latest serial step, or NoReq
    raised,            \* the latest serial step caught an exception
    xfer,              \* the set_macros items handled since the last "start"
    calls,             \* the navigation methods the latest loop step called
    macro_file,        \* content of macros.json
    settings_file,     \* content of settings.json
    marker,            \* the file "usbenabled" exists
    SETTINGS,          \* the module-level SETTINGS dict
    held,              \* physical keys currently down
    active_keys,       \* local active_keys of start(): held retrigger keys
    hid,               \* keyboard calls made by the latest loop step
    fired_at,          \* per held retrigger key: when its function last ran
    pitch_bend,        \* self.pitch_bend
    greeted,           \* the greeting went out since connected last rose
    boot_key1,         \* key 1 was held down when boot.py last ran
    down,              \* key codes pressed in the keyboard report the host holds
    now                \* time.monotonic(), in whole seconds

vars == <<pc, macro_store, group_stack, keys, enc, delayed_macros, readonly,
          serial_last_state, data_error, connected, rx, rx_skip, sent, req,
          raised, xfer, calls, macro_file, settings_file, marker, SETTINGS, held,
          active_keys, hid, fired_at, pitch_bend,
          greeted,
          boot_key1,
          down,
          now>>

----------------------------------------------------------------------------
(* Bounds of the model *)

\* number of physical keys handed out by macropad.keys.key_count
KeyCount == 1
\* deepest navigation stack the environment drives the device to
MaxDepth == 2
\* most payloads the host leaves unread on the serial line
MaxInbox == 1
\* last value of the clock
MaxTime == 1
\* most deferred entries the environment lets pile up
MaxDelayed == 2
\* how far from zero, in pitch-bend centers, the environment lets the running
\* pitch-bend value drift
MaxBend == 3

(* Program constants *)

\* code.py:38
READOUTSIZE == 64
\* code.py:123, "MIDI Pitch Bend Center"
BendCenter == 8192
\* code.py:389, the largest pitch-bend value
BendMax == 16383

----------------------------------------------------------------------------
(* Values *)

Min(a, b) == IF a < b THEN a ELSE b

Slots == 1..KeyCount

\* a falsy entry of a group's content list (JSON false)
Blank == "false"
\* a field that is not present in a JSON object
NoField == "<absent>"
\* the file does not exist / does not hold valid JSON
Missing == "<missing>"
Corrupt == "<corrupt>"
\* the time of a key that is not held, or does not retrigger
NoTime == -1

\* instructions of a macro: a number (delay) or a dict with one key
Delay(v) == [op |-> "delay", arg |-> "", val |-> v]
Sys(name) == [op |-> "sys", arg |-> name, val |-> 0]
Text(str) == [op |-> "text", arg |-> str, val |-> 0]
Kc(str) == [op |-> "kc", arg |-> str, val |-> 0]
\* a dict none of whose keys run_macro knows, e.g. {"foo": 1}
Unknown(name) == [op |-> "unknown", arg |-> name, val |-> 0]
\* {"tone": {...}}: has holds the keys of the inner dict, val the duration
Tone(has, duration) == [op |-> "tone", arg |-> "", val |-> duration, has |-> has]
\* {"file": name}
File(name) == [op |-> "file", arg |-> name, val |-> 0]
\* {"midi": {"ntson": ..}}: has holds the keys beside ntson, val the duration
NoteOn(has, duration) ==
    [op |-> "midi", arg |-> "ntson", val |-> duration, has |-> has]
\* {"midi": {"ptchb": mode, ..}}: has holds the keys beside ptchb, val the
\* number under pbval (mode set) or pbstp (modes incr and decr)
PitchBend(mode, has, n) == [op |-> "midi", arg |-> mode, val |-> n, has |-> has]

NoEncoder == [switch |-> <<>>, increased |-> <<>>, decreased |-> <<>>]

Node(type, label, hascolor, content, steps, encoder) ==
    [valid |-> TRUE, type |-> type, label |-> label, hascolor |-> hascolor,
     retrigger |-> FALSE, content |-> content, steps |-> steps,
     encoder |-> encoder]

\* json.loads of a serialized node.  The store keeps every node as a JSON
\* string; the model names the strings it uses and decodes them here.  For a
\* group "content" is the list of child ids, for a macro the list of
\* instructions (kept in steps).
JsonLoads(s) ==
    CASE s = "MACRODEFAULT" ->
            Node("group", "Macros", FALSE, [i \in 1..12 |-> Blank], <<>>, NoEncoder)
      [] s = "G_ROOT" ->
            Node("group", "Macros", TRUE, <<"1">>, <<>>,
                 [switch |-> <<Sys("close_group")>>, increased |-> <<>>,
                  decreased |-> <<>>])
      [] s = "G_SUB" ->
            Node("group", "Sub", TRUE, <<"1">>, <<>>,
                 [switch |-> <<Sys("close_group")>>,
                  increased |-> <<Delay(-1), Sys("go_to_root")>>,
                  decreased |-> <<Sys("go_to_root")>>])
      [] s = "G_RUN" ->
            Node("group", "Run", TRUE, <<"1">>, <<>>,
                 [switch |-> <<>>,
                  increased |-> <<Kc("A"), Delay(-1), Kc("C")>>,
                  decreased |-> <<Delay(-2), Kc("C")>>])
      [] s = "M_DEFER" ->
            Node("macro", "Defer", TRUE, <<>>,
                 <<Kc("A"), Delay(-1), Kc("C")>>, NoEncoder)
      [] s = "M_CHORD" ->
            Node("macro", "Chord", TRUE, <<>>, <<Kc("CONTROL,C")>>, NoEncoder)
      [] s = "M_TAP" ->
            Node("macro", "Tap", TRUE, <<>>, <<Kc("+a")>>, NoEncoder)
      [] s = "M_RELALL" ->
            Node("macro", "Relall", TRUE, <<>>, <<Kc("RELALL")>>, NoEncoder)
      [] s = "M_HOLD" ->
            [Node("macro", "Hold", TRUE, <<>>, <<Kc("+A")>>, NoEncoder)
                EXCEPT !.retrigger = TRUE]
      [] s = "G_DEV" ->
            Node("group", "Dev", TRUE, <<"1">>, <<>>,
                 [switch |-> <<PitchBend("set", {"pbval"}, 100)>>,
                  increased |-> <<PitchBend("incr", {"pbstp"}, 8192)>>,
                  decreased |-> <<PitchBend("decr", {"pbstp"}, 8192)>>])
      [] s = "M_UNKNOWN" ->
            Node("macro", "Unknown", TRUE, <<>>,
                 <<Unknown("foo"), Kc("A")>>, NoEncoder)
      [] s = "M_SOUND" ->
            Node("macro", "Sound", TRUE, <<>>,
                 <<Tone({"frequency", "duration"}, 1), File("audio/ok.wav"),
                   NoteOn({"vlcty", "durtn"}, 0), Kc("A")>>, NoEncoder)
      [] s = "M_NAMES" ->
            Node("macro", "Names", TRUE, <<>>,
                 <<Kc("NOKEY"), Sys("no_method"), File("audio/none.wav"),
                   Kc("A")>>, NoEncoder)
      [] s = "M_TONE" ->
            Node("macro", "Tone", TRUE, <<>>,
                 <<Tone({"frequency"}, 0), Kc("A")>>, NoEncoder)
      [] s = "M_NOTE" ->
            Node("macro", "Note", TRUE, <<>>,
                 <<NoteOn({"durtn"}, 1), Kc("A")>>, NoEncoder)
      [] s = "M_STEP" ->
            Node("macro", "Step", TRUE, <<>>,
                 <<PitchBend("incr", {}, 0), Kc("A")>>, NoEncoder)
      [] s = "M_SET" ->
            Node("macro", "Set", TRUE, <<>>,
                 <<PitchBend("set", {"pbval"}, 20000),
                   PitchBend("set", {"pbval"}, -1)>>, NoEncoder)
      [] s = "M_INCR" ->
            Node("macro", "Incr", TRUE, <<>>,
                 <<PitchBend("incr", {"pbstp"}, -16384)>>, NoEncoder)
      [] s = "M_DECR" ->
            Node("macro", "Decr", TRUE, <<>>,
                 <<PitchBend("decr", {"pbstp"}, -16384)>>, NoEncoder)
      [] s = "M_COPY" ->
            Node("macro", "Copy", TRUE, <<>>,
                 <<Kc("CONTROL"), Kc("C"), Kc("-CONTROL"), Kc("-C")>>, NoEncoder)
      [] s = "G_PLAIN" ->
            Node("group", "Plain", FALSE, <<"1">>, <<>>, NoEncoder)
      [] s = "M_QUOTE" ->
            Node("macro", "Quote", TRUE, <<>>, <<Text("\"")>>, NoEncoder)
      [] s = "M_NEWLINE" ->
            Node("macro", "Newline", TRUE, <<>>, <<Text("\n")>>, NoEncoder)
      [] OTHER ->
            [valid |-> FALSE, type |-> "", label |-> "", hascolor |-> FALSE,
             retrigger |-> FALSE, content |-> <<>>, steps |-> <<>>,
             encoder |-> NoEncoder]

\* code.py:34
MACRODEFAULT == "MACRODEFAULT"

----------------------------------------------------------------------------
(* Key and encoder bindings, group refresh *)

\* Key.clear_props
ClearedKey == [type |-> "none", func |-> "none", id |-> "", steps |-> <<>>,
               retrigger |-> FALSE]

\* key_funcs.get(key_type) of _update_tab
KeyFunc(type) ==
    CASE type = "macro" -> "run_macro"
      [] type = "group" -> "open_group"
      [] OTHER -> "none"

\* Key.has_func
HasFunc(k) == k.func # "none"

\* group["content"][:key_count] as references into the store; the entries of a
\* macro's content are instructions, whose str() is the id of no node
ChildRefs(d) ==
    LET all == IF d.type = "group" THEN d.content
               ELSE [i \in 1..Len(d.steps) |-> "<instruction>"]
    IN  SubSeq(all, 1, Min(Len(all), KeyCount))

\* the for loop of _update_tab from slot i on; a raises at the first child
\* that is not in the store, does not decode or has no colour
RECURSIVE BindSlots(_, _, _)
BindSlots(a, refs, i) ==
    IF i > Len(refs) THEN a
    ELSE IF refs[i] = Blank THEN BindSlots(a, refs, i + 1)
    ELSE IF refs[i] \notin DOMAIN a.store
         THEN [a EXCEPT !.status = "raised"]
    ELSE LET Bind(d) ==
                 IF ~d.valid THEN [a EXCEPT !.status = "raised"]
                 ELSE IF ~d.hascolor
                      THEN [a EXCEPT !.keys[i].type = d.type, !.status = "raised"]
                 ELSE BindSlots(
                        [a EXCEPT !.keys[i] =
                            [type |-> d.type, func |-> KeyFunc(d.type),
                             id |-> refs[i], steps |-> d.steps,
                             retrigger |-> d.retrigger]],
                        refs, i + 1)
         IN  Bind(JsonLoads(a.store[refs[i]]))

\* MacroApp._update_encoder_macros
UpdateEncoderMacros(a) ==
    LET top == a.stack[Len(a.stack)] IN
    IF top \notin DOMAIN a.store \/ ~JsonLoads(a.store[top]).valid
    THEN [a EXCEPT !.status = "raised"]
    ELSE [a EXCEPT !.enc = JsonLoads(a.store[top]).encoder]

\* MacroApp._update_tab
UpdateTab(a) ==
    LET top == a.stack[Len(a.stack)]
        cleared == [a EXCEPT !.keys = [i \in Slots |-> ClearedKey]]
    IN  IF top \notin DOMAIN a.store \/ ~JsonLoads(a.store[top]).valid
        THEN [cleared EXCEPT !.status = "raised"]
        ELSE BindSlots(cleared, ChildRefs(JsonLoads(a.store[top])), 1)

\* MacroApp._init_group
InitGroup(a) ==
    LET Tab(e) == IF e.status # "ok" THEN e ELSE UpdateTab(e)
    IN  Tab(UpdateEncoderMacros(a))

\* MacroApp.open_group
OpenGroup(a, id, key_pressed) ==
    IF key_pressed
    THEN InitGroup([a EXCEPT !.stack = Append(a.stack, id),
                             !.calls = a.calls \cup {"open_group"}])
    ELSE a

\* close_group with its depth test left out: it pops the last entry too
CloseGroupUnchecked(a) ==
    IF Len(a.stack) > 1
    THEN InitGroup([a EXCEPT !.stack = SubSeq(a.stack, 1, Len(a.stack) - 1),
                             !.calls = a.calls \cup {"close_group"}])
    ELSE [a EXCEPT !.stack = <<>>,
                   !.calls = a.calls \cup {"close_group at depth 1"}]

\* MacroApp.close_group
CloseGroup(a) ==
    IF Len(a.stack) > 1
    THEN InitGroup([a EXCEPT !.stack = SubSeq(a.stack, 1, Len(a.stack) - 1),
                             !.calls = a.calls \cup {"close_group"}])
    ELSE [a EXCEPT !.calls = a.calls \cup {"close_group at depth 1"}]

\* a go_to_root that drops the pending continuations
GoToRootCancels(a) ==
    InitGroup([a EXCEPT !.stack = SubSeq(a.stack, 1, 1),
                        !.delayed = <<>>,
                        !.calls = a.calls \cup {"go_to_root"}])

\* MacroApp.go_to_root
GoToRoot(a) ==
    InitGroup([a EXCEPT !.stack = SubSeq(a.stack, 1, 1),
                        !.calls = a.calls \cup {"go_to_root"}])

----------------------------------------------------------------------------
(* System calls and the macro interpreter *)

\* System.enable_usb: the marker is created and the board reset; when the
\* filesystem is read-only open() raises OSError, which is swallowed
EnableUsb(a) ==
    IF a.ro THEN a
    ELSE [a EXCEPT !.marker = TRUE, !.status = "hard"]

\* getattr(System, name, None) and the call method(self).  The brightness
\* methods change only the display and are no-ops on the modelled state.
SysCall(a, name) ==
    CASE name = "enable_usb" -> EnableUsb(a)
      [] name = "soft_reset" -> [a EXCEPT !.status = "soft"]
      [] name = "hard_reset" -> [a EXCEPT !.status = "hard"]
      [] name = "close_group" -> CloseGroup(a)
      [] name = "go_to_root" -> GoToRoot(a)
      [] OTHER -> a

\* the append without the sort
InsertLast(q, e) == Append(q, e)

\* the sort of _add_delayed_macro is stable: the new entry goes behind every
\* entry that is due no later
RECURSIVE InsertSorted(_, _)
InsertSorted(q, e) ==
    IF q = <<>> THEN <<e>>
    ELSE IF Head(q).due <= e.due THEN <<Head(q)>> \o InsertSorted(Tail(q), e)
    ELSE <<e>> \o q

\* an _add_delayed_macro that drops what is pending for the same id
AddDelayedMacroAlone(a, key_id, start_index, key_pressed, delay) ==
    [a EXCEPT !.delayed =
        InsertSorted(SelectSeq(a.delayed, LAMBDA e : e.id # key_id),
                     [id |-> key_id, start |-> start_index,
                      pressed |-> key_pressed, due |-> a.now + delay,
                      from |-> a.running])]

\* MacroApp._add_delayed_macro.  An entry is the tuple (key_id, start_index,
\* key_pressed, due time); beside it the model keeps the instruction list of
\* the run that recorded it (a.running), which the program does not store.
AddDelayedMacro(a, key_id, start_index, key_pressed, delay) ==
    [a EXCEPT !.delayed =
        InsertSorted(a.delayed,
                     [id |-> key_id, start |-> start_index,
                      pressed |-> key_pressed, due |-> a.now + delay,
                      from |-> a.running])]

\* the kc strings of the model as the characters that matter to run_macro:
\* a sign, a comma, or a run of other characters
KcChars(str) ==
    CASE str = "CONTROL,C" -> <<"CONTROL", ",", "C">>
      [] str = "+A" -> <<"+", "A">>
      [] str = "+a" -> <<"+", "a">>
      [] str = "-CONTROL" -> <<"-", "CONTROL">>
      [] str = "-C" -> <<"-", "C">>
      [] OTHER -> <<str>>

\* str.lstrip('-+')
RECURSIVE LStrip(_)
LStrip(chars) ==
    IF chars # <<>> /\ Head(chars) \in {"+", "-"} THEN LStrip(Tail(chars))
    ELSE chars

\* str.upper() of a run of characters
Upper(name) == IF name = "a" THEN "A" ELSE name

\* str.split(','): the runs between the commas; a run that holds a sign is
\* the name of no key
RECURSIVE Split(_, _)
Split(chars, run) ==
    IF chars = <<>> THEN <<run>>
    ELSE IF Head(chars) = "," THEN <<run>> \o Split(Tail(chars), "")
    ELSE Split(Tail(chars), IF run = "" THEN Upper(Head(chars)) ELSE "<no key>")

\* the attributes of the class Keycode (adafruit_hid.keycode) the model uses
KeycodeNames == {"A", "C", "CONTROL"}

\* key_codes cut down to its first code
KeyCodesFirst(str) ==
    LET First(q) == IF q = <<>> THEN q ELSE <<Head(q)>>
    IN  First(SelectSeq(Split(LStrip(KcChars(str)), ""),
                        LAMBDA n : n \in KeycodeNames))

\* the list comprehension key_codes of run_macro
KeyCodes(str) ==
    SelectSeq(Split(LStrip(KcChars(str)), ""), LAMBDA n : n \in KeycodeNames)

\* a call of self.macropad.keyboard
Hid(call, codes) == [call |-> call, codes |-> codes]

\* the 'kc' branch with the '-' names left to the release phase
KcStepNoMinus(a, str, key_pressed) ==
    LET key_codes == KeyCodes(str) IN
    IF key_codes = <<>> THEN a
    ELSE IF ~key_pressed
    THEN [a EXCEPT !.hid = Append(a.hid, Hid("release", key_codes))]
    ELSE IF Head(KcChars(str)) = "-" THEN a
    ELSE [a EXCEPT !.hid = Append(a.hid, Hid("press", key_codes))]

\* the 'kc' branch of run_macro
KcStep(a, str, key_pressed) ==
    LET key_codes == KeyCodes(str) IN
    IF key_codes = <<>> THEN a
    ELSE IF ~key_pressed
    THEN [a EXCEPT !.hid = Append(a.hid, Hid("release", key_codes))]
    ELSE IF str = "RELALL"
    THEN [a EXCEPT !.hid = Append(a.hid, Hid("release_all", <<>>))]
    ELSE IF Head(KcChars(str)) = "+"
    THEN [a EXCEPT !.hid = a.hid \o <<Hid("press", key_codes),
                                      Hid("release", key_codes)>>]
    ELSE IF Head(KcChars(str)) = "-"
    THEN [a EXCEPT !.hid = Append(a.hid, Hid("release", key_codes))]
    ELSE [a EXCEPT !.hid = Append(a.hid, Hid("press", key_codes))]

\* a lookup key['tone'][..] or key['midi'][..] of a key that is not there
KeyError(a) == [a EXCEPT !.status = "raised"]

\* the 'tone' branch of run_macro
ToneStep(a, key, key_pressed) ==
    IF ~key_pressed THEN [a EXCEPT !.hid = Append(a.hid, Hid("stop_tone", <<>>))]
    ELSE IF "duration" \notin key.has \/ "frequency" \notin key.has
    THEN KeyError(a)
    ELSE IF key.val > 0
    THEN [a EXCEPT !.hid = Append(a.hid, Hid("play_tone", <<>>))]
    ELSE [a EXCEPT !.hid = Append(a.hid, Hid("start_tone", <<>>))]

\* the audio files on the flash
AudioFiles == {"audio/ok.wav"}

\* the 'file' branch of run_macro: what play_file raises is passed over
FileStep(a, key, key_pressed) ==
    IF key_pressed /\ key.arg \in AudioFiles
    THEN [a EXCEPT !.hid = Append(a.hid, Hid("play_file", <<key.arg>>))]
    ELSE a

\* the 'ntson' branch: vlcty and durtn are read before the phase is looked at
NoteOnStep(a, key, key_pressed) ==
    IF "vlcty" \notin key.has \/ "durtn" \notin key.has THEN KeyError(a)
    ELSE IF key_pressed /\ key.val > 0
    THEN [a EXCEPT !.hid = a.hid \o <<Hid("midi.send", <<"on">>),
                                      Hid("midi.send", <<"off">>)>>]
    ELSE IF key_pressed
    THEN [a EXCEPT !.hid = Append(a.hid, Hid("midi.send", <<"on">>))]
    ELSE IF key.val = 0
    THEN [a EXCEPT !.hid = Append(a.hid, Hid("midi.send", <<"off">>))]
    ELSE a

\* midi.send(PitchBend(self.pitch_bend))
SendBend(a) == [a EXCEPT !.hid = Append(a.hid, Hid("midi.send", <<"PitchBend">>))]

\* if self.pitch_bend + pbstp <= 16383: self.pitch_bend += pbstp, else 16383
Incr(bend, step) == IF bend + step <= BendMax THEN bend + step ELSE BendMax

\* if self.pitch_bend - pbstp >= 0: self.pitch_bend -= pbstp, else 0
Decr(bend, step) == IF bend - step >= 0 THEN bend - step ELSE 0

\* the 'ptchb' branch of run_macro
PitchBendStep(a, key, key_pressed) ==
    IF ~key_pressed THEN a
    ELSE IF key.arg = "set"
    THEN IF "pbval" \notin key.has THEN KeyError(a)
         ELSE IF 0 <= key.val /\ key.val <= BendMax
         THEN SendBend([a EXCEPT !.pitch_bend = key.val])
         ELSE a
    ELSE IF key.arg = "incr"
    THEN IF "pbstp" \notin key.has THEN KeyError(a)
         ELSE SendBend([a EXCEPT !.pitch_bend = Incr(a.pitch_bend, key.val)])
    ELSE IF key.arg = "decr"
    THEN IF "pbstp" \notin key.has THEN KeyError(a)
         ELSE SendBend([a EXCEPT !.pitch_bend = Decr(a.pitch_bend, key.val)])
    ELSE a

\* the 'midi' branch of run_macro
MidiStep(a, key, key_pressed) ==
    IF key.arg = "ntson" THEN NoteOnStep(a, key, key_pressed)
    ELSE PitchBendStep(a, key, key_pressed)

\* a last branch that raises on what it does not know
UnknownStepRaises(a, key) == [a EXCEPT !.status = "raised"]

\* the last else of run_macro: print("unkown macro:", key)
UnknownStep(a, key) == a

\* the branches of run_macro for the dicts that play or send something
DeviceStep(a, key, key_pressed) ==
    CASE key.op = "tone" -> ToneStep(a, key, key_pressed)
      [] key.op = "file" -> FileStep(a, key, key_pressed)
      [] key.op = "midi" -> MidiStep(a, key, key_pressed)
      [] OTHER -> UnknownStep(a, key)

\* MacroApp.run_macro: the loop over item[1] at python index idx (steps[idx+1])
RECURSIVE RunMacroFrom(_, _, _, _, _)
RunMacroFrom(a, key_id, steps, idx, key_pressed) ==
    IF idx >= Len(steps) \/ a.status # "ok" THEN a
    ELSE LET key == steps[idx + 1] IN
         IF key.op = "delay" /\ key_pressed
         THEN IF key.val < 0
              THEN AddDelayedMacro([a EXCEPT !.running = steps], key_id,
                                   idx + 1, key_pressed, -key.val)
              ELSE RunMacroFrom(a, key_id, steps, idx + 1, key_pressed)
         ELSE IF key.op = "kc"
         THEN RunMacroFrom(KcStep(a, key.arg, key_pressed), key_id, steps,
                           idx + 1, key_pressed)
         ELSE IF key.op = "sys" /\ key_pressed
         THEN RunMacroFrom(SysCall(a, key.arg), key_id, steps, idx + 1, key_pressed)
         ELSE IF key.op \in {"tone", "file", "midi", "unknown"}
         THEN RunMacroFrom(DeviceStep(a, key, key_pressed), key_id, steps,
                           idx + 1, key_pressed)
         ELSE RunMacroFrom(a, key_id, steps, idx + 1, key_pressed)

\* MacroApp.run_macro
RunMacro(a, key_id, steps, start_index, key_pressed) ==
    RunMacroFrom(a, key_id, steps, start_index, key_pressed)

\* MacroApp.run_macro_press_and_release
RunMacroPressAndRelease(a, key_id, steps) ==
    RunMacro(RunMacro(a, key_id, steps, 0, TRUE), key_id, steps, 0, FALSE)

\* one of the three ifs of "encoder event handling"
EncoderFire(a, event, binding) ==
    IF event /\ a.status = "ok" /\ binding # <<>>
    THEN RunMacroPressAndRelease(a, a.stack[Len(a.stack)], binding)
    ELSE a

\* Key.call_func with the key's pressed state
CallFunc(a, k, key_pressed) ==
    CASE k.func = "run_macro" -> RunMacro(a, k.id, k.steps, 0, key_pressed)
      [] k.func = "open_group" -> OpenGroup(a, k.id, key_pressed)
      [] OTHER -> a

----------------------------------------------------------------------------
(* Persistent files *)

Ids == {"0", "1"}

EmptyStore == [i \in {} |-> ""]

StorePut(store, id, content) ==
    [i \in DOMAIN store \cup {id} |-> IF i = id THEN content ELSE store[i]]

\* a file: it is missing, holds something that is not JSON, or holds a JSON
\* object (data)
FileMissing == [state |-> Missing, data |-> EmptyStore]
FileCorrupt == [state |-> Corrupt, data |-> EmptyStore]
FileOf(store) == [state |-> "ok", data |-> store]

\* the characters of a serialized node that matter to _save_macros and to
\* json.load: "q" a double quote, "b" a backslash, "x" any run of others.
\* Every node holds quotes; a text that holds a quote or a line feed is
\* serialized with a backslash escape.
NodeChars(s) ==
    CASE s = "M_QUOTE" -> <<"q", "x", "q", "b", "q", "q", "x">>
      [] s = "M_NEWLINE" -> <<"q", "x", "q", "b", "x", "q", "x">>
      [] OTHER -> <<"q", "x", "q", "x">>

\* str(macro).replace("\"", "\\\""): a backslash goes before every quote,
\* and before nothing else
RECURSIVE EscapeQuotes(_)
EscapeQuotes(chars) ==
    IF chars = <<>> THEN <<>>
    ELSE IF Head(chars) = "q" THEN <<"b", "q">> \o EscapeQuotes(Tail(chars))
    ELSE <<Head(chars)>> \o EscapeQuotes(Tail(chars))

\* json.load of the characters between the quotes of a value: a backslash
\* takes the next character with it (a quote or a backslash gives that
\* character, any other escape the one character "c" it stands for), a
\* quote on its own ends the value and what follows it is no JSON
RECURSIVE JsonString(_)
JsonString(chars) ==
    IF chars = <<>> THEN [ok |-> TRUE, chars |-> <<>>]
    ELSE IF Head(chars) = "q" THEN [ok |-> FALSE, chars |-> <<>>]
    ELSE IF Head(chars) = "b"
    THEN IF Len(chars) = 1 THEN [ok |-> FALSE, chars |-> <<>>]
         ELSE LET rest == JsonString(Tail(Tail(chars)))
                  c == IF chars[2] \in {"q", "b"} THEN chars[2] ELSE "c"
              IN  [ok |-> rest.ok, chars |-> <<c>> \o rest.chars]
    ELSE LET rest == JsonString(Tail(chars))
         IN  [ok |-> rest.ok, chars |-> <<Head(chars)>> \o rest.chars]

\* a value that json.load gives back changed is the string of no node
Mangled == "<mangled>"

\* the text _save_macros writes, as json.load reads it back
WrittenMacroFile(store) ==
    LET read == [i \in DOMAIN store |-> JsonString(EscapeQuotes(NodeChars(store[i])))]
    IN  IF \E i \in DOMAIN store : ~read[i].ok THEN FileCorrupt
        ELSE FileOf([i \in DOMAIN store |->
                        IF read[i].chars = NodeChars(store[i]) THEN store[i]
                        ELSE Mangled])

\* _save_macros without the test of self.readonly
SaveMacrosAlways(a) ==
    [a |-> [a EXCEPT !.macro_file = WrittenMacroFile(a.store)], ok |-> TRUE]

\* MacroApp._save_macros; ok is the returned bool
SaveMacros(a) ==
    IF a.ro THEN [a |-> a, ok |-> FALSE]
    ELSE [a |-> [a EXCEPT !.macro_file = WrittenMacroFile(a.store)], ok |-> TRUE]

\* a _save_settings without the test of self.readonly
SaveSettingsUnchecked(a, new_settings) ==
    [a |-> [a EXCEPT !.settings_file = new_settings], ok |-> TRUE]

\* MacroApp._save_settings; ok is the returned bool
SaveSettings(a, new_settings) ==
    IF a.ro THEN [a |-> a, ok |-> FALSE]
    ELSE [a |-> [a EXCEPT !.settings_file = new_settings], ok |-> TRUE]

\* the try/except of _init_macros: the store read from macros.json, or the
\* default root when the file cannot be opened or parsed
LoadMacroStore(file) ==
    IF file.state = "ok" THEN file.data
    ELSE [i \in {"0"} |-> MACRODEFAULT]

\* MacroApp._init_macros
InitMacros(a) ==
    InitGroup([a EXCEPT !.store = LoadMacroStore(a.macro_file),
                        !.stack = <<"0">>])

----------------------------------------------------------------------------
(* Serial protocol *)

\* a message written by _send_serial_data
Msg(kind, text, id, content, count) ==
    [kind |-> kind, text |-> text, id |-> id, content |-> content,
     count |-> count]

Ack(text) == Msg("ACK", text, NoField, NoField, -1)
Err(text) == Msg("ERR", text, NoField, NoField, -1)

\* MacroApp._send_serial_data
SendSerialData(a, m) == [a EXCEPT !.out = Append(a.out, m)]

\* a payload as json.load returns it: a JSON object with the fields
\* command, content and id, each possibly absent
Payload(command, content, id) ==
    [json |-> TRUE, command |-> command, content |-> content, id |-> id]

\* bytes on the line that are not JSON
Garbage == [json |-> FALSE, command |-> NoField, content |-> NoField,
            id |-> NoField]

\* for key_id in self.macro_store.keys(): every id once
RECURSIVE StoreKeys(_)
StoreKeys(ids) ==
    IF ids = {} THEN <<>>
    ELSE LET k == CHOOSE x \in ids : TRUE IN <<k>> \o StoreKeys(ids \ {k})

\* the for loop left after its first round
SendMacrosOnce(a, ks) ==
    IF ks = <<>> THEN a
    ELSE SendSerialData(a, Msg("ACK", "macros", Head(ks), a.store[Head(ks)], -1))

\* the for loop of the get_macros branch
RECURSIVE SendMacros(_, _)
SendMacros(a, ks) ==
    IF ks = <<>> THEN a
    ELSE SendMacros(
            SendSerialData(a, Msg("ACK", "macros", Head(ks), a.store[Head(ks)], -1)),
            Tail(ks))

\* the test for content left out
HasContentAlways(payload) == TRUE

\* 'content' in payload.keys()
HasContent(payload) == payload.content # NoField

\* "start" that leaves the old entries in the store
StartTransferKeep(a) == a

\* if payload['content'] == 'start': self.macro_store = dict()
StartTransfer(a) == [a EXCEPT !.store = EmptyStore]

\* the count that takes every entry of the store
EndCountAll(store) == Cardinality(DOMAIN store)

\* response['CONTENT'] = len(self.macro_store) - 1
EndCount(store) == Cardinality(DOMAIN store) - 1

\* the set_macros branch of _handle_serial_data
HandleSetMacros(a, payload) ==
    IF ~HasContent(payload)
    THEN [a |-> a, response |-> <<Err("No content")>>]
    ELSE IF payload.content = "start"
    THEN [a |-> StartTransfer(a), response |-> <<>>]
    ELSE IF payload.content = "end"
    THEN LET Received(g) ==
                 IF g.status # "ok" THEN [a |-> g, response |-> <<>>]
                 ELSE [a |-> g,
                       response |-> <<Msg("ACK", "Macros received", NoField,
                                          NoField, EndCount(g.store))>>]
         IN  Received(InitGroup(a))
    ELSE IF payload.id = NoField
    THEN [a |-> [a EXCEPT !.status = "raised"], response |-> <<>>]
    ELSE [a |-> [a EXCEPT !.store = StorePut(a.store, payload.id, payload.content)],
          response |-> <<>>]

\* MacroApp._handle_serial_data: the new state (what it sent itself is
\* appended to a.out) and the returned response, <<>> for None
HandleSerialData(a, payload) ==
    LET command == payload.command
        \* the response is set after the call, which a reset does not leave
        Acked(u, text) ==
            [a |-> u, response |-> IF u.status = "ok" THEN <<Ack(text)>> ELSE <<>>]
    IN
    CASE command = NoField ->
            [a |-> a, response |-> <<Err("Wrong payload")>>]
      [] command = "get_settings" ->
            [a |-> a, response |-> <<Msg("ACK", "settings", NoField, "SETTINGS", -1)>>]
      [] command = "set_settings" ->
            IF ~HasContent(payload)
            THEN [a |-> a, response |-> <<Err("No content")>>]
            ELSE LET s == SaveSettings(a, payload.content) IN
                 [a |-> s.a,
                  response |-> IF s.ok THEN <<Ack("Settings are set")>>
                               ELSE <<Err("Cannot set settings because USB storage is enabled")>>]
      [] command = "get_macros" ->
            [a |-> SendMacros(SendSerialData(a, Msg("ACK", "macros", NoField, "start", -1)),
                              StoreKeys(DOMAIN a.store)),
             response |-> <<Msg("ACK", "macros", NoField, "end", -1)>>]
      [] command = "set_macros" -> HandleSetMacros(a, payload)
      [] command = "save_macros" ->
            LET s == SaveMacros(a) IN
            [a |-> s.a,
             response |-> IF s.ok THEN <<Ack("Macros stored")>>
                          ELSE <<Err("Cannot store macros because USB storage is enabled")>>]
      [] command = "enable_usb" -> Acked(EnableUsb(a), "Enable USB")
      [] command = "soft_reset" -> Acked(SysCall(a, "soft_reset"), "Softreset")
      [] command = "hard_reset" -> Acked(SysCall(a, "hard_reset"), "Hardreset")
      [] OTHER ->
            [a |-> a,
             response |-> <<Msg("ERR", "Unkown command: %s", NoField, command, -1)>>]

----------------------------------------------------------------------------
(* Settings *)

SettingKeys == {"sleeptime", "keyboardlayout", "useunicodefont", "fliprotation",
                "brightness", "invertcolors"}

\* the SETTINGS literal of code.py
DefaultSettings ==
    [k \in SettingKeys |->
        CASE k = "sleeptime" -> "2"
          [] k = "keyboardlayout" -> "us"
          [] k = "useunicodefont" -> "false"
          [] k = "fliprotation" -> "false"
          [] k = "brightness" -> "0.1"
          [] OTHER -> "false"]

\* the JSON objects the model uses as settings, by name
SettingsObj(name) ==
    CASE name = "S_INVERT" -> [k \in {"invertcolors", "sleeptime"} |->
                                  IF k = "sleeptime" THEN "5" ELSE "true"]
      [] name = "S_EXTRA" -> [k \in {"brightness", "theme"} |->
                                  IF k = "brightness" THEN "0.5" ELSE "dark"]
      [] OTHER -> [k \in {} |-> ""]

\* an update that takes nothing over
DictKeep(d, e) == d

\* dict.update
DictUpdate(d, e) ==
    [k \in DOMAIN d \cup DOMAIN e |-> IF k \in DOMAIN e THEN e[k] ELSE d[k]]

\* the module-level load of settings.json: OSError is passed over, anything
\* else that open/json.load raises ends the program
LoadSettings(file) ==
    IF file = Missing THEN [ok |-> TRUE, value |-> DefaultSettings]
    ELSE IF file = Corrupt THEN [ok |-> FALSE, value |-> DefaultSettings]
    ELSE [ok |-> TRUE, value |-> DictUpdate(DefaultSettings, SettingsObj(file))]

----------------------------------------------------------------------------
(* The application state handed through the operators above *)

App ==
    [store |-> macro_store, stack |-> group_stack, keys |-> keys, enc |-> enc,
     delayed |-> delayed_macros, status |-> "ok", marker |-> marker,
     ro |-> readonly, now |-> now, macro_file |-> macro_file,
     settings_file |-> settings_file, out |-> <<>>, calls |-> {},
     hid |-> <<>>, running |-> <<>>, pitch_bend |-> pitch_bend]

\* the report after the calls of self.macropad.keyboard: press adds the
\* codes, release removes them, release_all clears the report
RECURSIVE Report(_, _)
Report(codes, done) ==
    IF done = <<>> THEN codes
    ELSE LET c == Head(done)
             Range(q) == {q[j] : j \in 1..Len(q)}
         IN  Report(CASE c.call = "press" -> codes \cup Range(c.codes)
                      [] c.call = "release" -> codes \ Range(c.codes)
                      [] c.call = "release_all" -> {}
                      [] OTHER -> codes,
                    Tail(done))

Commit(a) ==
    /\ macro_store' = a.store
    /\ group_stack' = a.stack
    /\ keys' = a.keys
    /\ enc' = a.enc
    /\ delayed_macros' = a.delayed
    /\ marker' = a.marker
    /\ macro_file' = a.macro_file
    /\ settings_file' = a.settings_file
    /\ sent' = a.out
    /\ calls' = a.calls
    /\ hid' = a.hid
    /\ pitch_bend' = a.pitch_bend

\* where the loop goes after a step: on, or out of the loop by an exception
\* nobody catches, by microcontroller.reset() or by supervisor.reload()
After(a, nextpc) ==
    CASE a.status = "ok" -> nextpc
      [] a.status = "raised" -> "crashed"
      [] a.status = "hard" -> "hard_reset"
      [] OTHER -> "soft_reset"

NoReq == [json |-> FALSE, command |-> "<none>", content |-> NoField, id |-> NoField]

LoopPcs == {"connect", "serial", "delayed", "keyevent", "retrigger", "encoder"}

\* MacroApp.__init__ after _init_keys: the application before _init_macros
FreshApp(mfile, sfile, ro, mark, t) ==
    [store |-> EmptyStore, stack |-> <<"0">>,
     keys |-> [i \in Slots |-> ClearedKey], enc |-> NoEncoder,
     delayed |-> <<>>, status |-> "ok", marker |-> mark, ro |-> ro, now |-> t,
     macro_file |-> mfile, settings_file |-> sfile, out |-> <<>>,
     calls |-> {}, hid |-> <<>>, running |-> <<>>, pitch_bend |-> BendCenter]

\* code.py from its first line to the entry of the main loop: the settings
\* load, MacroApp() and the locals of start()
StartProgram(a0) ==
    LET s == LoadSettings(a0.settings_file)
        Loaded(a) == [a |-> a, settings |-> s.value, pc |-> After(a, "connect")]
    IN  Loaded(IF s.ok THEN InitMacros(a0) ELSE [a0 EXCEPT !.status = "raised"])

\* boot.py without the os.remove: the marker survives the boot
BootPyKeepsMarker(mark, key1) ==
    [readonly |-> mark \/ key1, marker |-> mark]

\* boot.py: the marker file or key 1 held down leaves the USB drive enabled,
\* and the filesystem read-only for the firmware; the marker is consumed
BootPy(mark, key1) ==
    [readonly |-> mark \/ key1, marker |-> FALSE]

\* no transfer under way
NoXfer == [phase |-> "none", items |-> {}, dup |-> FALSE]

----------------------------------------------------------------------------
(* Initial state: the board is powered on *)

FullTree == [i \in Ids |-> IF i = "0" THEN "G_ROOT" ELSE "G_SUB"]

InitialMacroFiles == {FileMissing, FileOf(FullTree)}

\* the user opens the group on key 1 and turns the encoder up once
Navigated(a) ==
    LET Turn(g) == EncoderFire(g, TRUE, g.enc.increased)
    IN  Turn(CallFunc(a, a.keys[1], TRUE))

\* power-on with one of the macro files, with key 1 held (key1s holds TRUE)
\* or not (FALSE); with navs holding TRUE also the state the user's first
\* navigation leaves
InitWith(files, key1s, navs) ==
    \E mf \in files, key1 \in key1s, nav \in navs :
        LET boot == BootPy(FALSE, key1) IN
        \E b \in {StartProgram(FreshApp(mf, Missing, boot.readonly, boot.marker, 0))} :
        \E a \in {IF nav /\ b.pc = "connect" THEN Navigated(b.a) ELSE b.a} :
            /\ pc = b.pc
            /\ macro_store = a.store
            /\ group_stack = a.stack
            /\ keys = a.keys
            /\ enc = a.enc
            /\ delayed_macros = a.delayed
            /\ readonly = boot.readonly
            /\ serial_last_state = FALSE
            /\ data_error = FALSE
            /\ connected = FALSE
            /\ greeted = FALSE
            /\ boot_key1 = key1
            /\ down = {}
            /\ rx = <<>>
            /\ rx_skip = 0
            /\ sent = <<>>
            /\ calls = {}
            /\ req = NoReq
            /\ raised = FALSE
            /\ xfer = NoXfer
            /\ macro_file = mf
            /\ settings_file = Missing
            /\ marker = boot.marker
            /\ SETTINGS = b.settings
            /\ held = {}
            /\ active_keys = <<>>
            /\ fired_at = [k \in Slots |-> NoTime]
            /\ hid = <<>>
            /\ pitch_bend = a.pitch_bend
            /\ now = 0

Init == InitWith({FileOf(FullTree)}, {FALSE}, {FALSE})

\* the program starts again after microcontroller.reset() (boot.py runs, the
\* USB connection is lost) or supervisor.reload() (code.py alone runs again)
Boot ==
    /\ pc \in {"hard_reset", "soft_reset"}
    /\ \E key1 \in BOOLEAN :
        LET hard == pc = "hard_reset"
            boot == IF hard THEN BootPy(marker, key1)
                    ELSE [readonly |-> readonly, marker |-> marker]
        IN  \E b \in {StartProgram(FreshApp(macro_file, settings_file, boot.readonly,
                                             boot.marker, IF hard THEN 0 ELSE now))} :
            /\ Commit(b.a)
            /\ down' = IF hard THEN {} ELSE down
            /\ pc' = b.pc
            /\ SETTINGS' = b.settings
            /\ readonly' = boot.readonly
            /\ serial_last_state' = FALSE
            /\ data_error' = FALSE
            /\ held' = {}
            /\ active_keys' = <<>>
            /\ fired_at' = [k \in Slots |-> NoTime]
            /\ now' = IF hard THEN 0 ELSE now
            /\ connected' = IF hard THEN FALSE ELSE connected
            /\ greeted' = IF hard THEN FALSE ELSE greeted
            /\ boot_key1' = IF hard THEN key1 ELSE boot_key1
            /\ rx' = IF hard THEN <<>> ELSE rx
            /\ rx_skip' = IF hard THEN 0 ELSE rx_skip
            /\ req' = NoReq
            /\ raised' = FALSE
            /\ xfer' = NoXfer

----------------------------------------------------------------------------
(* The serial line *)

\* length of the line that carries a payload (representative lengths: a
\* request, a longer line of noise)
PayloadBytes(p) == IF p.json THEN 30 ELSE 70

RECURSIVE SumBytes(_)
SumBytes(q) == IF q = <<>> THEN 0 ELSE Head(q) + SumBytes(Tail(q))

\* usb_cdc.data.in_waiting
InWaiting == SumBytes(rx) - rx_skip

\* usb_cdc.data.read(k): k bytes leave the front of the line
RECURSIVE ReadBytes(_, _, _)
ReadBytes(q, skip, k) ==
    IF k = 0 \/ q = <<>> THEN [rx |-> q, skip |-> skip]
    ELSE LET left == Head(q) - skip IN
         IF k >= left THEN ReadBytes(Tail(q), 0, k - left)
         ELSE [rx |-> q, skip |-> skip + k]

\* the set_macros items the host sends: (id, serialized node)
HostItems == {<<"0", "G_ROOT">>, <<"1", "G_SUB">>}

HostPayloads ==
    {Garbage,
     Payload(NoField, NoField, NoField),
     Payload("get_settings", NoField, NoField),
     Payload("set_settings", NoField, NoField),
     Payload("set_settings", "S_INVERT", NoField),
     Payload("get_macros", NoField, NoField),
     Payload("set_macros", NoField, NoField),
     Payload("set_macros", "start", NoField),
     Payload("set_macros", "end", NoField),
     Payload("set_macros", "G_SUB", NoField),
     Payload("save_macros", NoField, NoField),
     Payload("enable_usb", NoField, NoField),
     Payload("soft_reset", NoField, NoField),
     Payload("hard_reset", NoField, NoField),
     Payload("foo", NoField, NoField)}
    \cup {Payload("set_macros", it[2], it[1]) : it \in HostItems}

IsItem(p) ==
    /\ p.json
    /\ p.command = "set_macros"
    /\ p.content \notin {NoField, "start", "end"}

\* the record of the transfer under way, kept beside the program: the items
\* handled since "start" and whether an id came twice
XferAfter(p, x) ==
    IF ~p.json \/ p.command # "set_macros" \/ p.content = NoField THEN x
    ELSE IF p.content = "start" THEN [NoXfer EXCEPT !.phase = "open"]
    ELSE IF p.content = "end"
         THEN IF x.phase = "open" THEN [x EXCEPT !.phase = "ended"] ELSE NoXfer
    ELSE IF x.phase = "open" /\ p.id # NoField
         THEN [x EXCEPT !.items = x.items \cup {<<p.id, p.content>>},
                        !.dup = x.dup \/ \E it \in x.items : it[1] = p.id]
    ELSE NoXfer

(* Environment: the host and the USB connection *)

\* the host writes a line of n bytes.  What the line holds shows when
\* json.load takes it off (SerialHandle); until then the program sees only
\* in_waiting.
HostSend(n) ==
    /\ pc = "serial"
    /\ connected
    /\ Len(rx) < MaxInbox
    /\ rx' = Append(rx, n)
    /\ UNCHANGED <<down, boot_key1, greeted, pitch_bend, fired_at, active_keys, hid, pc, macro_store, group_stack, keys, enc, delayed_macros,
                   readonly, serial_last_state, data_error, connected, rx_skip,
                   sent, req, raised, xfer, calls, macro_file, settings_file,
                   marker, SETTINGS, held, now>>

Connect ==
    /\ pc = "connect"
    /\ ~connected
    /\ connected' = TRUE
    /\ greeted' = FALSE
    /\ UNCHANGED <<down, boot_key1, pitch_bend, fired_at, active_keys, hid, pc, macro_store, group_stack, keys, enc, delayed_macros,
                   readonly, serial_last_state, data_error, rx, rx_skip,
                   sent, req, raised, xfer, calls, macro_file, settings_file,
                   marker, SETTINGS, held, now>>

Disconnect ==
    /\ pc = "connect"
    /\ connected
    /\ connected' = FALSE
    /\ greeted' = FALSE
    /\ UNCHANGED <<down, boot_key1, pitch_bend, fired_at, active_keys, hid, pc, macro_store, group_stack, keys, enc, delayed_macros,
                   readonly, serial_last_state, data_error, rx, rx_skip,
                   sent, req, raised, xfer, calls, macro_file, settings_file,
                   marker, SETTINGS, held, now>>

\* time passes
Advance ==
    /\ pc = "delayed"
    /\ now < MaxTime
    /\ now' = now + 1
    /\ UNCHANGED <<down, boot_key1, greeted, pitch_bend, fired_at, active_keys, hid, pc, macro_store, group_stack, keys, enc, delayed_macros,
                   readonly, serial_last_state, data_error, connected, rx,
                   rx_skip, sent, req, raised, xfer, calls, macro_file,
                   settings_file, marker, SETTINGS, held>>

----------------------------------------------------------------------------
(* The main loop of MacroApp.start *)

BoolStr(b) == IF b THEN "true" ELSE "false"

\* the three messages sent when the connection is found established
Greeting(ro) ==
    <<Msg("ACK", "version", NoField, "1.5.0", -1),
      Msg("ACK", "audiofiles", NoField, "audiofiles", -1),
      Msg("ACK", "usbenabled", NoField, BoolStr(ro), -1)>>

\* "send after the connection is established"
ConnectStep ==
    /\ pc = "connect"
    /\ serial_last_state' = connected
    /\ sent' = IF serial_last_state # connected /\ connected
               THEN Greeting(readonly)
               ELSE <<>>
    /\ greeted' = (greeted \/ (serial_last_state # connected /\ connected))
    /\ calls' = {}
    /\ hid' = <<>>
    /\ req' = NoReq
    /\ raised' = FALSE
    /\ pc' = "serial"
    /\ UNCHANGED <<down, boot_key1, pitch_bend, fired_at, active_keys, macro_store, group_stack, keys, enc, delayed_macros, readonly,
                   data_error, connected, rx, rx_skip, xfer, macro_file,
                   settings_file, marker, SETTINGS, held, now>>

\* nothing to do on the serial line
SerialIdle ==
    /\ pc = "serial"
    /\ IF connected THEN ~data_error /\ InWaiting = 0 ELSE TRUE
    /\ sent' = <<>>
    /\ calls' = {}
    /\ hid' = <<>>
    /\ req' = NoReq
    /\ raised' = FALSE
    /\ pc' = "delayed"
    /\ UNCHANGED <<down, boot_key1, greeted, pitch_bend, fired_at, active_keys, macro_store, group_stack, keys, enc, delayed_macros, readonly,
                   serial_last_state, data_error, connected, rx, rx_skip, xfer,
                   macro_file, settings_file, marker, SETTINGS, held, now>>

\* "if an error occured, reload saved macrofile"
SerialReload ==
    /\ pc = "serial"
    /\ connected /\ data_error /\ InWaiting = 0
    /\ data_error' = FALSE
    /\ \E a \in {InitMacros(App)} :
        \E b \in {IF a.status = "ok"
                  THEN SendSerialData(a, Msg("WARN", "Reloaded: %s", NoField,
                                             "macros.json", -1))
                  ELSE a} :
           Commit(b) /\ down' = Report(down, b.hid) /\ pc' = After(b, "delayed")
    /\ req' = NoReq
    /\ raised' = FALSE
    /\ xfer' = NoXfer
    /\ UNCHANGED <<boot_key1, greeted, fired_at, active_keys, readonly, serial_last_state, connected, rx, rx_skip, SETTINGS,
                   held, now>>

\* "if an error occured, read all data to out to free the connection"
SerialDrain ==
    /\ pc = "serial"
    /\ connected /\ data_error /\ InWaiting # 0
    /\ LET r == ReadBytes(rx, rx_skip, Min(READOUTSIZE, InWaiting))
       IN  rx' = r.rx /\ rx_skip' = r.skip
    /\ sent' = <<>>
    /\ calls' = {}
    /\ hid' = <<>>
    /\ req' = NoReq
    /\ raised' = FALSE
    /\ pc' = "delayed"
    /\ UNCHANGED <<down, boot_key1, greeted, pitch_bend, fired_at, active_keys, macro_store, group_stack, keys, enc, delayed_macros, readonly,
                   serial_last_state, data_error, connected, xfer, macro_file,
                   settings_file, marker, SETTINGS, held, now>>

\* a loop without the try: nothing is caught
CaughtNever(status) == FALSE

\* except Exception as e: what json.load or the handler raised is caught
Caught(status) == status = "raised"

\* "try to handle all incoming data": json.load takes the payload p off the
\* line and _handle_serial_data handles it; an exception of either is caught,
\* reported and remembered in data_error.  json.load stops at the byte that is
\* not JSON, what is left of the line stays waiting (and is no JSON either).
SerialHandle(p) ==
    /\ pc = "serial"
    /\ connected /\ ~data_error /\ InWaiting > 0
    /\ IF rx_skip > 0 THEN p = Garbage ELSE PayloadBytes(p) = Head(rx)
    /\ \E h \in {IF p.json THEN HandleSerialData(App, p)
                  ELSE [a |-> [App EXCEPT !.status = "raised"], response |-> <<>>]} :
        \E caught \in {Caught(h.a.status)} :
         \E a \in {IF caught
                   THEN [SendSerialData(h.a, Err("exception")) EXCEPT !.status = "ok"]
                   ELSE IF h.a.status = "ok" /\ h.response # <<>>
                   THEN SendSerialData(h.a, h.response[1])
                   ELSE h.a} :
          LET r == IF p.json THEN [rx |-> Tail(rx), skip |-> 0]
                   ELSE ReadBytes(rx, rx_skip, 1)
          IN  /\ Commit(a) /\ down' = Report(down, a.hid)
              /\ pc' = After(a, "delayed")
              /\ data_error' = caught
              /\ raised' = caught
              /\ req' = p
              /\ xfer' = XferAfter(p, xfer)
              /\ rx' = r.rx
              /\ rx_skip' = r.skip
    /\ UNCHANGED <<boot_key1, greeted, fired_at, active_keys, readonly, serial_last_state, connected, SETTINGS, held, now>>

\* json.loads(self.macro_store[id])["content"] as run_macro iterates it: the
\* instructions of a macro; of a group the child ids, which run_macro takes
\* for text to type, and false, which it takes for the number 0
ContentOf(d) ==
    IF d.type = "macro" THEN d.steps
    ELSE [i \in 1..Len(d.content) |->
            IF d.content[i] = Blank THEN Delay(0) ELSE Text(d.content[i])]

\* "handle delayed macro execution": nothing is due
DelayedIdle ==
    /\ pc = "delayed"
    /\ IF delayed_macros = <<>> THEN TRUE ELSE now < delayed_macros[1].due
    /\ sent' = <<>>
    /\ calls' = {}
    /\ hid' = <<>>
    /\ req' = NoReq
    /\ raised' = FALSE
    /\ pc' = "keyevent"
    /\ UNCHANGED <<down, boot_key1, greeted, pitch_bend, fired_at, active_keys, macro_store, group_stack, keys, enc, delayed_macros, readonly,
                   serial_last_state, data_error, connected, rx, rx_skip, xfer,
                   macro_file, settings_file, marker, SETTINGS, held, now>>

\* "handle delayed macro execution": the first entry is due; it is popped
\* and run against the node the store now holds under its id
DelayedRun ==
    /\ pc = "delayed"
    /\ IF delayed_macros = <<>> THEN FALSE ELSE now >= delayed_macros[1].due
    /\ LET item == Head(delayed_macros)
           popped == [App EXCEPT !.delayed = Tail(delayed_macros)]
       IN  \E a \in {IF item.id \notin DOMAIN macro_store
                         \/ ~JsonLoads(macro_store[item.id]).valid
                      THEN [popped EXCEPT !.status = "raised"]
                      ELSE RunMacro(popped, item.id,
                                    ContentOf(JsonLoads(macro_store[item.id])),
                                    item.start, item.pressed)} :
              Commit(a) /\ down' = Report(down, a.hid) /\ pc' = After(a, "keyevent")
    /\ req' = NoReq
    /\ raised' = FALSE
    /\ UNCHANGED <<boot_key1, greeted, fired_at, active_keys, readonly, serial_last_state, data_error, connected, rx,
                   rx_skip, xfer, SETTINGS, held, now>>

\* active_keys[n] = t
ActivePut(ak, n, t) ==
    IF \E j \in 1..Len(ak) : ak[j].key = n
    THEN [j \in 1..Len(ak) |-> IF ak[j].key = n THEN [key |-> n, since |-> t]
                               ELSE ak[j]]
    ELSE Append(ak, [key |-> n, since |-> t])

\* active_keys.pop(n, None)
ActivePop(ak, n) == SelectSeq(ak, LAMBDA e : e.key # n)

\* "key event handling": keys.events.get() returns no event
KeyIdle ==
    /\ pc = "keyevent"
    /\ sent' = <<>>
    /\ calls' = {}
    /\ hid' = <<>>
    /\ req' = NoReq
    /\ raised' = FALSE
    /\ pc' = "retrigger"
    /\ UNCHANGED <<down, boot_key1, greeted, pitch_bend, fired_at, active_keys, macro_store, group_stack, keys, enc,
                   delayed_macros, readonly, serial_last_state, data_error,
                   connected, rx, rx_skip, xfer, macro_file, settings_file,
                   marker, SETTINGS, held, now>>

\* the pitch-bend values the environment drives the device to
BendBounded(bend) ==
    -(MaxBend * BendCenter) <= bend /\ bend <= MaxBend * BendCenter

\* "key event handling": key i goes down
KeyPress(i) ==
    /\ pc = "keyevent"
    /\ i \notin held
    /\ keys[i].func = "open_group" => Len(group_stack) < MaxDepth
    /\ held' = held \cup {i}
    /\ \E a \in {IF HasFunc(keys[i]) THEN CallFunc(App, keys[i], TRUE) ELSE App} :
           /\ Len(a.delayed) <= MaxDelayed
           /\ BendBounded(a.pitch_bend)
           /\ Commit(a) /\ down' = Report(down, a.hid)
           /\ pc' = After(a, "retrigger")
           /\ active_keys' =
                 IF HasFunc(keys[i]) /\ a.status = "ok" /\ a.keys[i].retrigger
                 THEN ActivePut(active_keys, i, now)
                 ELSE active_keys
           /\ fired_at' =
                 IF HasFunc(keys[i]) /\ a.status = "ok" /\ a.keys[i].retrigger
                 THEN [fired_at EXCEPT ![i] = now]
                 ELSE fired_at
    /\ req' = NoReq
    /\ raised' = FALSE
    /\ UNCHANGED <<boot_key1, greeted, readonly, serial_last_state, data_error, connected, rx,
                   rx_skip, xfer, SETTINGS, now>>

\* "key event handling": key i goes up
KeyRelease(i) ==
    /\ pc = "keyevent"
    /\ i \in held
    /\ held' = held \ {i}
    /\ \E a \in {CallFunc(App, keys[i], FALSE)} :
           /\ Commit(a) /\ down' = Report(down, a.hid)
           /\ pc' = After(a, "retrigger")
           /\ active_keys' = IF a.status = "ok" THEN ActivePop(active_keys, i)
                             ELSE active_keys
           /\ fired_at' = [fired_at EXCEPT ![i] = NoTime]
    /\ req' = NoReq
    /\ raised' = FALSE
    /\ UNCHANGED <<boot_key1, greeted, readonly, serial_last_state, data_error, connected, rx,
                   rx_skip, xfer, SETTINGS, now>>

\* time.monotonic() - active_key_delay > 0.75, on the clock of whole seconds
HeldLong(t, since) == 4 * (t - since) > 3

\* the for loop over active_keys.items(): every key held past the threshold
\* has its function called again
RECURSIVE RetriggerKeys(_, _)
RetriggerKeys(a, ak) ==
    IF ak = <<>> \/ a.status # "ok" THEN a
    ELSE RetriggerKeys(
            IF HeldLong(a.now, Head(ak).since)
            THEN CallFunc(a, a.keys[Head(ak).key], TRUE)
            ELSE a,
            Tail(ak))

\* "if a key is pressed continuously, the function triggers again after a
\* short delay"
RetriggerStep ==
    /\ pc = "retrigger"
    /\ \E a \in {RetriggerKeys(App, active_keys)} :
           /\ Len(a.delayed) <= MaxDelayed
           /\ Commit(a) /\ down' = Report(down, a.hid)
           /\ pc' = After(a, "encoder")
    /\ fired_at' = [k \in Slots |->
                        IF \E j \in 1..Len(active_keys) :
                              /\ active_keys[j].key = k
                              /\ HeldLong(now, active_keys[j].since)
                        THEN now ELSE fired_at[k]]
    /\ req' = NoReq
    /\ raised' = FALSE
    /\ UNCHANGED <<boot_key1, greeted, active_keys, readonly, serial_last_state, data_error,
                   connected, rx, rx_skip, xfer, SETTINGS, held, now>>

\* "encoder event handling": the switch and the rotation read in this tick
EncoderStep(switch, rotation) ==
    /\ pc = "encoder"
    /\ \E a1 \in {EncoderFire(App, switch, enc.switch)} :
        \E a2 \in {EncoderFire(a1, rotation = "increased", a1.enc.increased)} :
         \E a3 \in {EncoderFire(a2, rotation = "decreased", a2.enc.decreased)} :
           /\ Len(a3.delayed) <= MaxDelayed
           /\ BendBounded(a3.pitch_bend)
           /\ Commit(a3) /\ down' = Report(down, a3.hid)
           /\ pc' = After(a3, "connect")
    /\ req' = NoReq
    /\ raised' = FALSE
    /\ UNCHANGED <<boot_key1, greeted, fired_at, active_keys, readonly, serial_last_state, data_error, connected, rx,
                   rx_skip, xfer, SETTINGS, held, now>>

----------------------------------------------------------------------------

\* the payloads of a streamed transfer, and noise on the line
XferPayloads ==
    {Garbage,
     Payload("set_macros", "start", NoField),
     Payload("set_macros", "end", NoField)}
    \cup {Payload("set_macros", it[2], it[1]) : it \in HostItems}

Loop ==
    \/ ConnectStep
    \/ SerialIdle
    \/ SerialReload
    \/ SerialDrain
    \/ \E p \in XferPayloads : SerialHandle(p)
    \/ DelayedIdle
    \/ DelayedRun
    \/ KeyIdle
    \/ \E i \in Slots : KeyPress(i)
    \/ \E i \in Slots : KeyRelease(i)
    \/ RetriggerStep
    \/ \E switch \in BOOLEAN, rotation \in {"none", "increased", "decreased"} :
          EncoderStep(switch, rotation)

\* the device with its user and a host that streams macro transfers
Next ==
    \/ \E p \in XferPayloads : HostSend(PayloadBytes(p))
    \/ Connect
    \/ Advance
    \/ Loop

Spec == Init /\ [][Next]_vars

\* the device idle in the user's hands, with a host that sends every command
InitProto == InitWith(InitialMacroFiles, BOOLEAN, BOOLEAN)

NextProto ==
    \/ \E p \in HostPayloads : HostSend(PayloadBytes(p))
    \/ Connect
    \/ Disconnect
    \/ Boot
    \/ ConnectStep
    \/ SerialIdle
    \/ SerialReload
    \/ SerialDrain
    \/ \E p \in HostPayloads : SerialHandle(p)
    \/ DelayedIdle
    \/ KeyIdle
    \/ RetriggerStep
    \/ EncoderStep(FALSE, "none")

SpecProto == InitProto /\ [][NextProto]_vars

----------------------------------------------------------------------------
(* The device in the user's hands, no host connected *)

\* the macros bound to key 1
RunMacros == {"M_DEFER", "M_CHORD", "M_TAP", "M_RELALL", "M_HOLD"}

RunTree(m) == [i \in Ids |-> IF i = "0" THEN "G_RUN" ELSE m]

InitRun == InitWith({FileOf(RunTree(m)) : m \in RunMacros}, {FALSE}, {FALSE})

NextRun ==
    \/ Advance
    \/ ConnectStep
    \/ SerialIdle
    \/ DelayedIdle
    \/ DelayedRun
    \/ KeyIdle
    \/ \E i \in Slots : KeyPress(i)
    \/ \E i \in Slots : KeyRelease(i)
    \/ RetriggerStep
    \/ \E rotation \in {"none", "increased", "decreased"} :
          EncoderStep(FALSE, rotation)

SpecRun == InitRun /\ [][NextRun]_vars

----------------------------------------------------------------------------
(* The device in the user's hands: macros that play, send MIDI, or hold an
   instruction run_macro does not know *)

\* the macros bound to key 1
DevMacros == {"M_UNKNOWN", "M_SOUND", "M_NAMES", "M_TONE", "M_NOTE", "M_STEP",
              "M_SET", "M_INCR", "M_DECR", "M_COPY"}

DevTree(m) == [i \in Ids |-> IF i = "0" THEN "G_DEV" ELSE m]

InitDev == InitWith({FileOf(DevTree(m)) : m \in DevMacros}, {FALSE}, {FALSE})

NextDev ==
    \/ ConnectStep
    \/ SerialIdle
    \/ DelayedIdle
    \/ KeyIdle
    \/ \E i \in Slots : KeyPress(i)
    \/ \E i \in Slots : KeyRelease(i)
    \/ RetriggerStep
    \/ \E switch \in BOOLEAN, rotation \in {"none", "increased", "decreased"} :
          EncoderStep(switch, rotation)

SpecDev == InitDev /\ [][NextDev]_vars

----------------------------------------------------------------------------
(* The device in the user's hands: one key, tapped or held, and the clock *)

\* the macros bound to key 1
TapMacros == {"M_DEFER", "M_COPY", "M_CHORD"}

InitTap == InitWith({FileOf(DevTree(m)) : m \in TapMacros}, {FALSE}, {FALSE})

NextTap ==
    \/ Advance
    \/ ConnectStep
    \/ SerialIdle
    \/ DelayedIdle
    \/ DelayedRun
    \/ KeyIdle
    \/ \E i \in Slots : KeyPress(i)
    \/ \E i \in Slots : KeyRelease(i)
    \/ RetriggerStep
    \/ EncoderStep(FALSE, "none")

SpecTap == InitTap /\ [][NextTap]_vars

----------------------------------------------------------------------------
(* The user walks the groups while the host replaces them *)

\* the host sends the root group and a sub group that has no "color"
NavItems == {<<"0", "G_ROOT">>, <<"1", "G_PLAIN">>}

NavPayloads ==
    {Garbage,
     Payload("set_macros", "start", NoField),
     Payload("set_macros", "end", NoField)}
    \cup {Payload("set_macros", it[2], it[1]) : it \in NavItems}

NextNav ==
    \/ \E p \in NavPayloads : HostSend(PayloadBytes(p))
    \/ Connect
    \/ ConnectStep
    \/ SerialIdle
    \/ SerialReload
    \/ SerialDrain
    \/ \E p \in NavPayloads : SerialHandle(p)
    \/ DelayedIdle
    \/ KeyIdle
    \/ \E i \in Slots : KeyPress(i)
    \/ \E i \in Slots : KeyRelease(i)
    \/ RetriggerStep
    \/ \E switch \in BOOLEAN, rotation \in {"none", "decreased"} :
          EncoderStep(switch, rotation)

SpecNav == Init /\ [][NextNav]_vars

----------------------------------------------------------------------------
(* The user walks the groups while continuations are pending *)

\* a root group whose key runs a macro that defers and whose encoder closes
\* the group, goes to the root, or defers a go_to_root
WalkTree == [i \in Ids |-> IF i = "0" THEN "G_SUB" ELSE "M_DEFER"]

InitWalk == InitWith({FileOf(FullTree), FileOf(WalkTree)}, {FALSE}, {FALSE})

NextWalk ==
    \/ Advance
    \/ ConnectStep
    \/ SerialIdle
    \/ DelayedIdle
    \/ DelayedRun
    \/ KeyIdle
    \/ \E i \in Slots : KeyPress(i)
    \/ \E i \in Slots : KeyRelease(i)
    \/ RetriggerStep
    \/ \E switch \in BOOLEAN, rotation \in {"none", "increased", "decreased"} :
          EncoderStep(switch, rotation)

SpecWalk == InitWalk /\ [][NextWalk]_vars



\* a macro on key 1 whose text holds a quote, or a line feed
QuoteTree == [i \in Ids |-> IF i = "0" THEN "G_ROOT" ELSE "M_QUOTE"]
NewlineTree == [i \in Ids |-> IF i = "0" THEN "G_ROOT" ELSE "M_NEWLINE"]

\* macros.json: absent, no JSON, or a JSON object (the empty one included)
LoadMacroFiles ==
    {FileMissing, FileCorrupt, FileOf(FullTree), FileOf(QuoteTree),
     FileOf(NewlineTree), FileOf(EmptyStore)}

\* settings.json: absent, no JSON, or a JSON object
LoadSettingsFiles == {Missing, Corrupt, "S_INVERT", "S_EXTRA"}

\* the board is switched on: boot.py and code.py are about to run
InitLoad ==
    /\ pc = "hard_reset"
    /\ macro_file \in LoadMacroFiles
    /\ settings_file \in LoadSettingsFiles
    /\ macro_store = EmptyStore
    /\ group_stack = <<"0">>
    /\ keys = [i \in Slots |-> ClearedKey]
    /\ enc = NoEncoder
    /\ delayed_macros = <<>>
    /\ readonly = FALSE
    /\ serial_last_state = FALSE
    /\ data_error = FALSE
    /\ connected = FALSE
    /\ greeted = FALSE
    /\ boot_key1 = FALSE
    /\ down = {}
    /\ rx = <<>>
    /\ rx_skip = 0
    /\ sent = <<>>
    /\ calls = {}
    /\ req = NoReq
    /\ raised = FALSE
    /\ xfer = NoXfer
    /\ marker = FALSE
    /\ SETTINGS = DefaultSettings
    /\ held = {}
    /\ active_keys = <<>>
    /\ fired_at = [k \in Slots |-> NoTime]
    /\ hid = <<>>
    /\ pitch_bend = BendCenter
    /\ now = 0

\* what the host sends to a device whose files are under test
LoadPayloads ==
    {Garbage,
     Payload("set_macros", "start", NoField),
     Payload("set_settings", "S_EXTRA", NoField),
     Payload("save_macros", NoField, NoField),
     Payload("soft_reset", NoField, NoField)}

NextLoad ==
    \/ Boot
    \/ \E p \in LoadPayloads : HostSend(PayloadBytes(p))
    \/ Connect
    \/ ConnectStep
    \/ SerialIdle
    \/ SerialReload
    \/ SerialDrain
    \/ \E p \in LoadPayloads : SerialHandle(p)
    \/ DelayedIdle
    \/ KeyIdle
    \/ RetriggerStep
    \/ EncoderStep(FALSE, "none")

SpecLoad == InitLoad /\ [][NextLoad]_vars

----------------------------------------------------------------------------
(* Navigation stack *)

C1_Rooted == Len(group_stack) >= 1 /\ group_stack[1] = "0"

\* a loop step whose only navigation call was close_group at depth 1
C1_ClosedAtRoot == calls' = {"close_group at depth 1"}

C1_CloseAtRootIsNoOp ==
    C1_ClosedAtRoot => UNCHANGED <<group_stack, keys, enc>>

\* C1: whatever sequence of open_group, close_group, go_to_root, reloads of
\* the store and set_macros transfers has run, group_stack has at least one
\* entry and its bottom entry is "0"; and close_group called at depth 1
\* changes neither the stack nor the bindings of the keys and the encoder.
C1_StackInvariant == []C1_Rooted /\ [][C1_CloseAtRootIsNoOp]_vars

\* close_group has just been called at depth 1, after the user had gone down
\* into a group and come back, and a transfer has replaced the store
C1_Witness ==
    /\ calls = {"close_group at depth 1"}
    /\ Len(group_stack) = 1
    /\ xfer.phase = "ended"
    /\ HasFunc(keys[1])

----------------------------------------------------------------------------
(* Streamed transfers *)

\* a transfer start, items with pairwise distinct ids, end has been handled
C2_Transferred == xfer.phase = "ended" /\ ~xfer.dup

\* C2: after a set_macros transfer of "start", N items with pairwise
\* distinct ids and "end", the macro store holds exactly those N entries,
\* each id with the content sent for it: the store is determined by the set
\* of items alone, not by their order nor by what the store held before.
C2_StoreIsItems ==
    C2_Transferred =>
        /\ DOMAIN macro_store = {it[1] : it \in xfer.items}
        /\ \A it \in xfer.items : macro_store[it[1]] = it[2]
        /\ Cardinality(DOMAIN macro_store) = Cardinality(xfer.items)

\* "end" has just been handled after two items
C2_Witness ==
    /\ C2_Transferred
    /\ Cardinality(xfer.items) = 2
    /\ req = Payload("set_macros", "end", NoField)

----------------------------------------------------------------------------
(* get_macros *)

C3_Requested == req = Payload("get_macros", NoField, NoField)

C3_Stream ==
    C3_Requested =>
        /\ Len(sent) = Cardinality(DOMAIN macro_store) + 2
        /\ sent[1] = Msg("ACK", "macros", NoField, "start", -1)
        /\ sent[Len(sent)] = Msg("ACK", "macros", NoField, "end", -1)
        /\ \A id \in DOMAIN macro_store :
              \E i \in 2..(Len(sent) - 1) :
                 /\ sent[i] = Msg("ACK", "macros", id, macro_store[id], -1)
                 /\ \A j \in 2..(Len(sent) - 1) : sent[j].id = id => j = i

\* the step that handles get_macros
C3_StoreKept ==
    (pc = "serial" /\ pc' # "serial" /\ C3_Requested') =>
        macro_store' = macro_store

\* C3: get_macros emits the start message first, then exactly one message
\* {ACK: macros, ID, CONTENT} for each id in the macro store with the stored
\* content, then the end message last, and leaves the macro store as it was.
C3_GetMacros == []C3_Stream /\ [][C3_StoreKept]_vars

\* get_macros has been answered from a store of two entries
C3_Witness ==
    /\ C3_Requested
    /\ Cardinality(DOMAIN macro_store) = 2
    /\ Len(sent) = 4

----------------------------------------------------------------------------
(* Responses *)

\* the commands of C4 but set_macros, whose phases C5 takes one by one
C4_Answered == {"get_settings", "set_settings", "save_macros", "enable_usb",
                "soft_reset", "hard_reset"}

\* C4: every handled request whose command is get_settings, set_settings,
\* save_macros, enable_usb, soft_reset or hard_reset causes exactly one
\* response to be sent.
C4_OneResponse ==
    (req.json /\ req.command \in C4_Answered) => Len(sent) = 1

\* C5: a set_macros request with content "start" and one that carries an
\* {id, content} item send no response; a set_macros request with content
\* "end" sends exactly one response, with ACK "Macros received".
C5_TransferResponses ==
    /\ (req = Payload("set_macros", "start", NoField)
            \/ (IsItem(req) /\ req.id # NoField))
          => sent = <<>>
    /\ req = Payload("set_macros", "end", NoField)
          => /\ Len(sent) = 1
             /\ sent[1].kind = "ACK"
             /\ sent[1].text = "Macros received"

\* "end" has been answered with the count
C6_Counted ==
    /\ req = Payload("set_macros", "end", NoField)
    /\ Len(sent) = 1
    /\ sent[1].text = "Macros received"

\* C6 as the specification states it: the count returned in CONTENT of the
\* "end" response equals the number of entries in the macro store, N after a
\* transfer of N items with distinct ids.
C6_CountIsEntries ==
    C6_Counted => sent[1].count = Cardinality(DOMAIN macro_store)

\* C6, amended: the count returned in CONTENT of the "end" response is the
\* number of entries in the macro store less one, N - 1 after a transfer of
\* N items with distinct ids.
C6_CountIsEntriesLessOne ==
    C6_Counted =>
        /\ sent[1].count = Cardinality(DOMAIN macro_store) - 1
        /\ C2_Transferred => sent[1].count = Cardinality(xfer.items) - 1

\* a transfer of two items has been answered
C6_Witness ==
    /\ C6_Counted
    /\ C2_Transferred
    /\ Cardinality(xfer.items) = 2
    /\ sent[1].count = 1

----------------------------------------------------------------------------
(* Requests that lack a field or name no command *)

KnownCommands == {"get_settings", "set_settings", "get_macros", "set_macros",
                  "save_macros", "enable_usb", "soft_reset", "hard_reset"}

\* the request just handled had no command, was a set_settings or set_macros
\* without content, or named an unknown command
C7_Malformed ==
    /\ req.json
    /\ \/ req.command = NoField
       \/ req.command \in {"set_settings", "set_macros"} /\ req.content = NoField
       \/ req.command \notin KnownCommands

C7_OneErr ==
    C7_Malformed =>
        /\ Len(sent) = 1
        /\ sent[1].kind = "ERR"
        /\ (req.command # NoField /\ req.command \notin KnownCommands) =>
              (sent[1].text = "Unkown command: %s" /\ sent[1].content = req.command)

\* the step that handles such a request
C7_Frame ==
    (pc = "serial" /\ pc' # "serial" /\ C7_Malformed') =>
        UNCHANGED <<macro_store, group_stack, delayed_macros, macro_file,
                    settings_file>>

\* C7: a request without a command, a set_settings or set_macros request
\* without content and a request with an unknown command are each answered
\* with exactly one response, which has the ERR field ("Unkown command:
\* <command>" for the unknown command), and leave the macro store, the
\* navigation stack, the deferred queue and the persisted files as they were.
C7_MalformedRequests == []C7_OneErr /\ [][C7_Frame]_vars

\* an unknown command has been answered while the user is inside a group
\* with a continuation waiting
C7_Witness ==
    /\ C7_Malformed
    /\ req.command = "foo"
    /\ Len(group_stack) = 2
    /\ delayed_macros # <<>>

----------------------------------------------------------------------------
(* Error recovery of the serial line *)

\* the payload just taken off the line made json.load or the handler raise:
\* bytes that are no JSON, or a set_macros item without an id
C8_Raising == req = Garbage \/ (IsItem(req) /\ req.id = NoField)

\* the payload was a JSON request that lacks command, or content where
\* set_settings and set_macros need it
C8_MissingField ==
    /\ req.json
    /\ \/ req.command = NoField
       \/ req.command \in {"set_settings", "set_macros"} /\ req.content = NoField

\* C8 as the specification states it: every protocol error, a request that
\* is valid JSON but lacks a required field included, sets the error flag
\* that starts the drain and the reload.
C8_EveryErrorRecovers == (C8_Raising \/ C8_MissingField) => data_error

\* C8, amended: a payload that makes json.load or the handler raise is
\* answered with ERR and sets the error flag that starts the drain and the
\* reload; a JSON request that lacks a required field or names an unknown
\* command is answered with ERR only, the error flag stays clear.
C8_OnlyExceptionsRecover ==
    /\ C8_Raising =>
          (data_error /\ raised /\ Len(sent) = 1 /\ sent[1].kind = "ERR")
    /\ raised => data_error
    /\ C7_Malformed =>
          (~data_error /\ ~raised /\ Len(sent) = 1 /\ sent[1].kind = "ERR")

\* a set_macros request without content has been answered, the flag is clear
C8_Witness ==
    /\ req = Payload("set_macros", NoField, NoField)
    /\ sent = <<Err("No content")>>
    /\ ~data_error

\* the loop of start() keeps running: a tick is never put off for ever
FairSpec == Spec /\ WF_vars(Loop)

\* the host puts nothing more on the line
C9_HostSilent == rx' = rx \/ Len(rx') < Len(rx)

\* C9, its last sentence: once the error flag is set, if the connection
\* stays up and the peer stops sending, the reload happens and clears it.
C9_ReloadHappens ==
    (<>[][C9_HostSilent]_vars) => (data_error ~> ~data_error)

----------------------------------------------------------------------------
(* What is written to storage *)

C10_SaveHandled == req = Payload("save_macros", NoField, NoField)

\* the macro file changes in no step but the one that handles save_macros
\* with writable storage
C10_OnlySaveWrites ==
    macro_file' # macro_file =>
        (pc = "serial" /\ ~readonly /\ C10_SaveHandled')

\* the step that handles a set_macros request
C10_TransferWritesNothing ==
    (pc = "serial" /\ pc' # "serial" /\ req'.command = "set_macros") =>
        macro_file' = macro_file

C10_ReadOnlyWritesNothing ==
    readonly => UNCHANGED <<macro_file, settings_file>>

C10_ReadOnlyRefuses ==
    (readonly /\ (C10_SaveHandled
                    \/ req = Payload("set_settings", "S_INVERT", NoField))) =>
        (Len(sent) = 1 /\ sent[1].kind = "ERR")

\* C10: the persisted macro file changes only by a save_macros command
\* handled while storage is writable; set_macros transfers never write it;
\* with storage read-only save_macros and set_settings write nothing and are
\* answered with an ERR field, not an ACK.
C10_Writes ==
    /\ [][C10_OnlySaveWrites]_vars
    /\ [][C10_TransferWritesNothing]_vars
    /\ [][C10_ReadOnlyWritesNothing]_vars
    /\ []C10_ReadOnlyRefuses

\* save_macros has written a store that a transfer had changed
C10_Witness ==
    /\ C10_SaveHandled
    /\ sent = <<Ack("Macros stored")>>
    /\ macro_file = FileOf(macro_store)
    /\ macro_file \notin InitialMacroFiles

----------------------------------------------------------------------------
(* Loading the persisted files *)

\* code.py starts: the step out of a reset
C11_Starts == pc \in {"hard_reset", "soft_reset"}

\* the tick that reloads the macro file after an error
C11_Reloads ==
    pc = "serial" /\ pc' # "serial" /\ connected /\ data_error /\ InWaiting = 0

C11_DefaultStore == [i \in {"0"} |-> MACRODEFAULT]

C11_NoMacros == macro_file.state \in {Missing, Corrupt}

C11_NoSettings == settings_file \in {Missing, Corrupt}

\* a start with one of the files missing or no JSON, the other one missing,
\* no JSON or well-formed; and a reload with the macro file missing or no JSON
C11_LoadStep ==
    /\ (C11_Starts /\ (C11_NoMacros \/ C11_NoSettings)
            /\ (C11_NoMacros \/ macro_file = FileOf(FullTree)))
          => /\ pc' = "connect"
             /\ C11_NoMacros => macro_store' = C11_DefaultStore
             /\ C11_NoSettings => SETTINGS' = DefaultSettings
    /\ (C11_Reloads /\ C11_NoMacros)
          => (pc' = "delayed" /\ macro_store' = C11_DefaultStore)

\* C11: when the macro file or the settings file is missing or does not
\* hold valid JSON, loading substitutes the defaults (a store with only the
\* default root group under "0"; the built-in settings) and never raises.
C11_LoadSubstitutesDefaults == [][C11_LoadStep]_vars

\* the same with a settings file that is missing or holds JSON: what the
\* code does guarantee
C11_SettingsParse == [][settings_file # Corrupt => C11_LoadStep]_vars

\* a step that runs _init_macros: a start that got past the settings, or
\* the reload
C12_Loads == (C11_Starts /\ settings_file # Corrupt) \/ C11_Reloads

C12_LoadStep ==
    C12_Loads =>
        /\ pc' # "crashed"
        /\ "0" \in DOMAIN macro_store'
        /\ JsonLoads(macro_store'["0"]).valid
        /\ JsonLoads(macro_store'["0"]).type = "group"

\* C12: after every macro load (at startup and in the error-recovery
\* reload), for any content of the macro file, the store holds the root id
\* "0", that entry decodes to a group, and the first refresh of the root
\* group does not raise: the system never starts in an errored macro state.
C12_LoadedRootIsGroup == [][C12_LoadStep]_vars

\* the same for a macro file that is missing, is no JSON, or holds a tree
\* with its root: what the code does guarantee
C12_RootedFileLoads ==
    [][(C11_NoMacros \/ macro_file \in {FileOf(FullTree), FileOf(QuoteTree)})
          => C12_LoadStep]_vars

----------------------------------------------------------------------------
(* Settings *)

\* code.py starts with a settings file that holds a JSON object
C13_LoadsObject == C11_Starts /\ settings_file \notin {Missing, Corrupt}

C13_LoadStep ==
    C13_LoadsObject =>
        \A k \in SettingKeys :
            /\ k \in DOMAIN SETTINGS'
            /\ SETTINGS'[k] = IF k \in DOMAIN SettingsObj(settings_file)
                              THEN SettingsObj(settings_file)[k]
                              ELSE DefaultSettings[k]

\* C13: for every persisted settings object the loaded settings are the
\* defaults overridden by the object: a recognised key that the file lacks
\* has its default value, one that the file holds has the file's value.
C13_SettingsMerge == [][C13_LoadStep]_vars

\* the program runs on settings that took two keys from the file and the
\* others from the defaults
C13_Witness ==
    /\ pc \in LoopPcs
    /\ settings_file = "S_INVERT"
    /\ SETTINGS["invertcolors"] = "true"
    /\ SETTINGS["sleeptime"] = "5"
    /\ SETTINGS["brightness"] = DefaultSettings["brightness"]

----------------------------------------------------------------------------
(* Saving and loading the macro store *)

\* save_macros has just written the store
C14_Saved ==
    /\ req = Payload("save_macros", NoField, NoField)
    /\ sent = <<Ack("Macros stored")>>

\* C14: for every macro store, node strings with double quotes and
\* backslashes included, saving it with storage writable and then loading
\* yields a store equal to the original.
C14_RoundTrip == C14_Saved => LoadMacroStore(macro_file) = macro_store

\* the same for a store whose nodes hold quotes but no backslash: what the
\* code does guarantee
C14_PlainRoundTrip ==
    (C14_Saved /\ \A i \in DOMAIN macro_store :
                     "b" \notin {NodeChars(macro_store[i])[j] :
                                    j \in 1..Len(NodeChars(macro_store[i]))})
        => LoadMacroStore(macro_file) = macro_store

----------------------------------------------------------------------------
(* Deferred continuations *)

\* the first strictly negative number of an instruction list, as a position
\* of the sequence (the python index plus one); 0 when there is none
C15_FirstDefer(steps) ==
    IF \E j \in 1..Len(steps) : steps[j].op = "delay" /\ steps[j].val < 0
    THEN CHOOSE j \in 1..Len(steps) :
            /\ steps[j].op = "delay" /\ steps[j].val < 0
            /\ \A h \in 1..(j - 1) : ~(steps[h].op = "delay" /\ steps[h].val < 0)
    ELSE 0

\* the tuple the program stores for a deferred entry
C15_Tuple(e) == <<e.id, e.start, e.pressed, e.due>>

\* q2 is q1 with one entry put in at position p
C15_InsertedAt(q1, q2, p) ==
    /\ Len(q2) = Len(q1) + 1
    /\ p \in 1..Len(q2)
    /\ \A j \in 1..Len(q1) : q1[j] = q2[IF j < p THEN j ELSE j + 1]

\* key i goes down and runs a macro (press phase)
C15_Pressed(i) ==
    /\ pc = "keyevent" /\ pc' # "keyevent"
    /\ i \notin held /\ i \in held'
    /\ keys[i].func = "run_macro"

\* the press-phase run of a macro with a negative number at python index
\* j - 1 records (id, j, pressed, now + abs(value)) and runs nothing behind it
C15_PressStep ==
    \A i \in Slots :
        LET steps == keys[i].steps
            j == C15_FirstDefer(steps)
        IN  (C15_Pressed(i) /\ j > 0) =>
               /\ \E p \in 1..Len(delayed_macros') :
                     /\ C15_InsertedAt(delayed_macros, delayed_macros', p)
                     /\ C15_Tuple(delayed_macros'[p]) =
                            <<keys[i].id, j, TRUE, now - steps[j].val>>
               /\ hid' = RunMacro(App, keys[i].id, SubSeq(steps, 1, j - 1), 0, TRUE).hid

\* an entry leaves the queue only in the tick that finds it due
C15_NotEarly ==
    (delayed_macros # <<>> /\ delayed_macros' # delayed_macros
        /\ \A p \in 1..Len(delayed_macros') :
               ~C15_InsertedAt(delayed_macros, delayed_macros', p))
      => (pc = "delayed" /\ now >= Head(delayed_macros).due)

\* the tick that finds the first entry due
C15_Due ==
    /\ pc = "delayed" /\ pc' # "delayed"
    /\ delayed_macros # <<>>
    /\ now >= Head(delayed_macros).due

\* that tick takes the entry off and runs the steps behind the negative
\* number of the list that recorded it, once
C15_DueStep ==
    C15_Due =>
        LET item == Head(delayed_macros)
            a == RunMacro([App EXCEPT !.delayed = Tail(delayed_macros)],
                          item.id, item.from, item.start, item.pressed)
        IN  /\ hid' = a.hid
            /\ calls' = a.calls
            /\ delayed_macros' = a.delayed
            /\ group_stack' = a.stack

\* C15: a press-phase run that reaches a strictly negative number at index
\* i records one deferred entry (node id, i + 1, pressed, now + abs(value))
\* and stops without executing any step after i; the steps after i are not
\* executed before the due time, and they are executed exactly once, by a
\* main-loop tick at or after the due time.
C15_DeferredRun == [][C15_PressStep /\ C15_NotEarly /\ C15_DueStep]_vars

\* the same for the entries recorded by a key's macro: what the code does
\* guarantee while the store is not replaced
C15_KeyDeferredRun ==
    [][/\ C15_PressStep
       /\ C15_NotEarly
       /\ (C15_Due /\ JsonLoads(macro_store[Head(delayed_macros).id]).type = "macro")
             => C15_DueStep]_vars

\* C16: in every reachable state the deferred queue is ordered by
\* non-decreasing due time, so the entry the main loop inspects and pops,
\* the first one, is one with the earliest due time.
C16_QueueOrdered ==
    /\ \A i, j \in 1..Len(delayed_macros) :
          i < j => delayed_macros[i].due <= delayed_macros[j].due
    /\ \A i \in 1..Len(delayed_macros) :
          Head(delayed_macros).due <= delayed_macros[i].due

\* the key has just recorded an entry, which went in front of the entry the
\* encoder recorded before with a later due time
C16_Witness ==
    /\ pc = "retrigger"
    /\ hid = <<Hid("press", <<"A">>)>>
    /\ Len(delayed_macros) = 2
    /\ C15_Tuple(delayed_macros[1]) = <<"1", 2, TRUE, now + 1>>
    /\ C15_Tuple(delayed_macros[2]) = <<"0", 1, TRUE, 2>>

\* key i goes down and runs, up to a negative number, a macro that has an
\* entry pending
C17_Reinvoked(i) ==
    /\ C15_Pressed(i)
    /\ C15_FirstDefer(keys[i].steps) > 0
    /\ \E j \in 1..Len(delayed_macros) : delayed_macros[j].id = keys[i].id

\* the run puts one entry of its own into the queue and leaves the others
C17_Queued ==
    \A i \in Slots :
        C17_Reinvoked(i) =>
            \E p \in 1..Len(delayed_macros') :
                /\ C15_InsertedAt(delayed_macros, delayed_macros', p)
                /\ delayed_macros'[p].id = keys[i].id
                /\ delayed_macros'[p].due = now - keys[i].steps[C15_FirstDefer(keys[i].steps)].val

\* a key's entry that is due is run as recorded, whatever else is pending
C17_StillRuns ==
    (C15_Due /\ JsonLoads(macro_store[Head(delayed_macros).id]).type = "macro")
        => C15_DueStep

\* C17: re-invoking run for a key whose macro already has a pending
\* deferred entry adds one new deferred entry and leaves every pending entry
\* in the queue with its node id, start index, pressed flag and due time
\* unchanged; the earlier continuation still executes at its own due time.
C17_RequeueKeepsPending == [][C17_Queued /\ C17_StillRuns]_vars

\* the entry of the first press has just run at its due time, the entry of
\* the second press, made while the first was pending, is still waiting
C17_Witness ==
    /\ pc = "keyevent"
    /\ hid = <<Hid("press", <<"C">>)>>
    /\ now = 1
    /\ Len(delayed_macros) = 1
    /\ C15_Tuple(delayed_macros[1]) = <<"1", 2, TRUE, 2>>

----------------------------------------------------------------------------
(* Retrigger of held keys *)

\* the loop runs its retrigger step
C18_Tick == pc = "retrigger" /\ pc' # "retrigger"

\* key k is down and was taken into active_keys when it went down
C18_Held(k) == \E j \in 1..Len(active_keys) : active_keys[j].key = k

\* the step runs the function of key k once, and nothing else
C18_FiresOnce(k) ==
    hid' = RunMacro(App, keys[k].id, keys[k].steps, 0, TRUE).hid

C18_Step ==
    /\ \A k \in Slots :
          /\ (C18_Tick /\ C18_Held(k) /\ 4 * (now - fired_at[k]) > 3)
                => C18_FiresOnce(k)
          /\ (C18_Tick /\ C18_Held(k) /\ 4 * (now - fired_at[k]) < 3)
                => hid' = <<>>
    /\ (C18_Tick /\ active_keys = <<>>) => hid' = <<>>

\* C18: while a key with the retrigger flag is held without release, its
\* bound callback fires again once per elapsed 0.75 s interval (successive
\* firings 0.75 s apart, not more often) for as long as the key is held;
\* the repeat stops when the key is released.
C18_RetriggerInterval == [][C18_Step]_vars

\* what the code does guarantee: no repeat within 0.75 s of the press, a
\* repeat in every tick after that, none once the key is released
C18_RetriggerEveryTick ==
    [][/\ \A k \in Slots : \A j \in 1..Len(active_keys) :
             (C18_Tick /\ active_keys[j].key = k) =>
                 IF 4 * (now - active_keys[j].since) > 3
                 THEN C18_FiresOnce(k) ELSE hid' = <<>>
       /\ (C18_Tick /\ active_keys = <<>>) => hid' = <<>>]_vars

----------------------------------------------------------------------------
(* Key codes *)

\* key i goes up
C19_Released(i) ==
    /\ pc = "keyevent" /\ pc' # "keyevent"
    /\ i \in held /\ i \notin held'
    /\ keys[i].func = "run_macro"

C19_Step ==
    \A i \in Slots :
        /\ (C15_Pressed(i) /\ keys[i].steps = <<Kc("CONTROL,C")>>)
              => hid' = <<Hid("press", <<"CONTROL", "C">>)>>
        /\ (C19_Released(i) /\ keys[i].steps = <<Kc("CONTROL,C")>>)
              => hid' = <<Hid("release", <<"CONTROL", "C">>)>>
        /\ (C15_Pressed(i) /\ keys[i].steps = <<Kc("+a")>>)
              => hid' = <<Hid("press", <<"A">>), Hid("release", <<"A">>)>>

\* C19: for a kc instruction that names several comma-separated codes
\* without prefix, the press-phase run issues a keyboard press of all named
\* codes and the release-phase run a release of all of them; for one with
\* the prefix '+' the press-phase run issues a press immediately followed
\* by a release of the named codes.
C19_Chords == [][C19_Step]_vars

\* the key with the chord has been pressed and has just been released
C19_Witness ==
    /\ pc = "retrigger"
    /\ keys[1].steps = <<Kc("CONTROL,C")>>
    /\ hid = <<Hid("release", <<"CONTROL", "C">>)>>

\* C20: a kc instruction whose string is the literal RELALL, executed in the
\* press phase, invokes the release-all capability of the keyboard.
C20_ReleaseAll ==
    [][\A i \in Slots :
          (C15_Pressed(i) /\ keys[i].steps = <<Kc("RELALL")>>)
              => hid' = <<Hid("release_all", <<>>)>>]_vars

----------------------------------------------------------------------------
(* C21: an instruction without a recognised key *)

\* key 1 goes down or up while it is bound to a macro whose first instruction
\* is a dict run_macro knows no key of, followed by {"kc": "A"}
C21_Runs ==
    /\ pc = "keyevent"
    /\ (1 \in held') # (1 \in held)
    /\ keys[1].func = "run_macro"
    /\ keys[1].steps = <<Unknown("foo"), Kc("A")>>

\* C21: an instruction that is a dict with no recognised key makes run_macro
\* call no device and raise nothing, in the press and in the release phase,
\* and the instruction after it is executed: the only call of the step is the
\* press (key down) or the release (key up) of A, nothing is sent and the
\* loop goes on
C21_UnknownIgnored ==
    [][C21_Runs =>
          /\ pc' = "retrigger"
          /\ hid' = <<Hid(IF 1 \in held' THEN "press" ELSE "release", <<"A">>)>>
          /\ sent' = <<>>
          /\ pitch_bend' = pitch_bend]_vars

\* the press phase has run over the unknown instruction and pressed A
C21_Witness ==
    /\ pc = "retrigger"
    /\ 1 \in held
    /\ keys[1].steps = <<Unknown("foo"), Kc("A")>>
    /\ hid = <<Hid("press", <<"A">>)>>

----------------------------------------------------------------------------
(* C22: steps of a recognised kind with missing fields or unknown names *)

\* instruction lists whose first steps name a key code, a System method and an
\* audio file that do not exist, each followed by {"kc": "A"}
C22_UnknownNames == {JsonLoads("M_NAMES").steps}

\* instruction lists whose first step lacks a field: a tone without duration,
\* a note-on without velocity, a pitch-bend increment without step
C22_MissingFields ==
    {JsonLoads(m).steps : m \in {"M_TONE", "M_NOTE", "M_STEP"}}

\* key 1 goes down or up while it is bound to one of the lists
C22_Runs ==
    /\ pc = "keyevent"
    /\ (1 \in held') # (1 \in held)
    /\ keys[1].func = "run_macro"
    /\ keys[1].steps \in C22_UnknownNames \cup C22_MissingFields

\* the run did not raise and its last call is the press or release of A
C22_RanToEnd ==
    /\ pc' = "retrigger"
    /\ hid' # <<>>
    /\ hid'[Len(hid')] = Hid(IF 1 \in held' THEN "press" ELSE "release", <<"A">>)

\* C22: for every instruction list that holds a step of a recognised kind with
\* missing or malformed fields, or an unknown code, system name or audio file,
\* run_macro does not raise and every step after the bad one is executed
C22_BadStepsSkipped ==
    [][C22_Runs => C22_RanToEnd]_vars

\* the part of C22 that holds: names that do not exist are passed over
C22_NamesSkipped ==
    [][C22_Runs /\ keys[1].steps \in C22_UnknownNames => C22_RanToEnd]_vars

----------------------------------------------------------------------------
(* C23: the running pitch-bend value *)

\* C23: the running pitch-bend value starts at 8192 and stays within
\* [0, 16383] in every reachable state, whatever set, increment and decrement
\* instructions are run, negative steps and out-of-range values included
C23_BendInRange ==
    pitch_bend = BendCenter /\ [](0 <= pitch_bend /\ pitch_bend <= BendMax)

\* a key is bound to a pitch-bend instruction with a negative step
C23_NegativeStep ==
    /\ keys[1].func = "run_macro"
    /\ \E i \in 1..Len(keys[1].steps) :
          /\ keys[1].steps[i].op = "midi"
          /\ keys[1].steps[i].arg \in {"incr", "decr"}
          /\ keys[1].steps[i].val < 0

\* the part of C23 that holds: with steps that are not negative the value
\* stays in the range, and a set outside the range is ignored
C23_InRangeUnlessNegativeStep ==
    C23_NegativeStep \/ (0 <= pitch_bend /\ pitch_bend <= BendMax)

\* the value has been clamped at the upper end
C23_Clamped == pitch_bend = BendMax /\ ~C23_NegativeStep

----------------------------------------------------------------------------
(* C24: the navigation stack when the store is replaced *)

\* the step handles the "end" of a set_macros transfer that began with
\* "start", and nothing is raised
C24_TransferEnds ==
    /\ pc = "serial"
    /\ xfer.phase = "open"
    /\ xfer'.phase = "ended"
    /\ ~raised'

\* the step reloads the store from macros.json after an error
C24_Reloads ==
    /\ pc = "serial"
    /\ pc' \notin {"serial", "crashed"}
    /\ connected /\ data_error /\ InWaiting = 0

\* C24: whenever the macro store is replaced, by the "end" of a set_macros
\* transfer or by a reload from storage, the navigation stack is reset to
\* exactly [root], whatever depth the user had navigated to
C24_StackResetOnReplace ==
    [][C24_TransferEnds \/ C24_Reloads => group_stack' = <<"0">>]_vars

\* the part of C24 that holds: a reload from storage resets the stack
C24_ReloadResetsStack == [][C24_Reloads => group_stack' = <<"0">>]_vars

\* a reload has happened
C24_Reloaded ==
    /\ sent # <<>>
    /\ sent[Len(sent)] = Msg("WARN", "Reloaded: %s", NoField, "macros.json", -1)

----------------------------------------------------------------------------
(* C25: a child id that is not in the store *)

\* the child ids of the group on top of the stack, as far as there are keys
C25_Refs == ChildRefs(JsonLoads(macro_store[group_stack[Len(group_stack)]]))

\* slot i of the active group names a node the store does not hold
C25_Dangling(i) ==
    /\ i <= Len(C25_Refs)
    /\ C25_Refs[i] # Blank
    /\ C25_Refs[i] \notin DOMAIN macro_store

\* the step handles the "end" of a transfer, whose refresh finds the active
\* group in the store, with a slot that names a missing node
C25_RefreshMissingChild ==
    /\ pc = "serial"
    /\ req'.command = "set_macros"
    /\ req'.content = "end"
    /\ group_stack[Len(group_stack)] \in DOMAIN macro_store
    /\ JsonLoads(macro_store[group_stack[Len(group_stack)]]).valid
    /\ \E i \in Slots : C25_Dangling(i)

\* C25: when the active group's content references a child id that is not in
\* the macro store, the refresh binds that slot to no callback and does not
\* raise
C25_MissingChildIsBlank ==
    [][C25_RefreshMissingChild =>
          /\ ~raised'
          /\ \A i \in Slots : C25_Dangling(i) => ~HasFunc(keys'[i])]_vars

----------------------------------------------------------------------------
(* C26: greeting notifications *)

\* a loop step that sends the three greeting messages
C26_Greets ==
    /\ pc = "connect"
    /\ pc' = "serial"
    /\ sent' = Greeting(readonly)

\* a loop step that answers the host on the serial line
C26_Responds ==
    /\ pc = "serial"
    /\ pc' # "serial"
    /\ sent' # <<>>

\* C26: the greeting (version, usbenabled, audiofiles) is sent exactly once
\* at each false-to-true transition of connected, before any response on
\* that connection, and never while connected is false or unchanged since
\* the last greeting
C26_GreetingOncePerConnection ==
    [][/\ C26_Greets => (connected /\ ~greeted)
       /\ C26_Responds => greeted]_vars

\* C26 (part that holds): the greeting is only ever sent while connected
C26_GreetsOnlyConnected == [][C26_Greets => connected]_vars

\* C26: a response went out on a connection that was never greeted
C26_Ungreeted == connected /\ ~greeted /\ pc = "delayed" /\ sent # <<>>

----------------------------------------------------------------------------
(* C27: the USB marker file across boots *)

\* the loop step that handles an enable_usb request
C27_EnableUsb == pc = "serial" /\ req'.json /\ req'.command = "enable_usb"

\* boot.py runs: the board comes back from microcontroller.reset()
C27_Boots == pc = "hard_reset" /\ pc' # "hard_reset"

\* a boot that finds the marker enters USB-enabled mode, every boot leaves
\* no marker behind, and a boot without marker and without key 1 held enters
\* the data-only mode with the filesystem writable by the firmware
C27_ConsumedOnBoot ==
    C27_Boots => /\ ~marker'
                 /\ readonly' = (marker \/ boot_key1')

\* the marker exists only between its creation and the reset that follows
C27_NoMarkerOnceBooted == pc' # "hard_reset" => ~marker'

\* C27 (as stated): enable_usb creates the marker file and resets the
\* device; a boot that finds the marker enters USB-enabled mode and deletes
\* it, the marker never exists once boot has completed, and the following
\* boot (no new enable_usb, key 1 not held) returns to the data-only mode
\* with storage writable by the firmware
C27_MarkerContractAsStated ==
    [][/\ C27_EnableUsb => (marker' /\ pc' = "hard_reset")
       /\ C27_ConsumedOnBoot
       /\ C27_NoMarkerOnceBooted]_vars

\* C27 (amended): enable_usb creates the marker file and resets the device
\* when the storage is writable by the firmware; in USB-enabled mode it
\* creates nothing, does not reset and is acknowledged.  A boot that finds
\* the marker enters USB-enabled mode and deletes it, the marker never
\* exists once boot has completed, and a boot with no marker and key 1 not
\* held returns to the data-only mode with storage writable by the firmware
C27_MarkerContract ==
    [][/\ (C27_EnableUsb /\ ~readonly) => (marker' /\ pc' = "hard_reset")
       /\ (C27_EnableUsb /\ readonly)
              => /\ ~marker'
                 /\ pc' = "delayed"
                 /\ sent' = <<Ack("Enable USB")>>
       /\ C27_ConsumedOnBoot
       /\ C27_NoMarkerOnceBooted]_vars

\* C27: the program runs in USB-enabled mode although key 1 was not held at
\* boot: enable_usb left the marker and the boot consumed it
C27_BootedByMarker ==
    /\ pc \in LoopPcs
    /\ readonly
    /\ ~boot_key1
    /\ ~marker

----------------------------------------------------------------------------
(* C28: the macro [{kc: CONTROL}, {kc: C}, {kc: -CONTROL}, {kc: -C}] *)

C28_Copy == <<Kc("CONTROL"), Kc("C"), Kc("-CONTROL"), Kc("-C")>>

\* key 1 (slot 0 of the root group) goes down while bound to the macro
C28_Pressed ==
    /\ pc = "keyevent"
    /\ 1 \notin held
    /\ 1 \in held'
    /\ group_stack = <<"0">>
    /\ keys[1].func = "run_macro"
    /\ keys[1].steps = C28_Copy

\* key 1 goes up while bound to the macro
C28_Released ==
    /\ pc = "keyevent"
    /\ 1 \in held
    /\ 1 \notin held'
    /\ group_stack = <<"0">>
    /\ keys[1].func = "run_macro"
    /\ keys[1].steps = C28_Copy

\* C28 (as stated): pressing slot 0 issues press(CONTROL) then press(C) and
\* no release; release(CONTROL), release(C) are issued only when the key is
\* released
C28_ReleasesOnlyOnKeyRelease ==
    [][/\ C28_Pressed => hid' = <<Hid("press", <<"CONTROL">>),
                                 Hid("press", <<"C">>)>>
       /\ C28_Released => hid' = <<Hid("release", <<"CONTROL">>),
                                  Hid("release", <<"C">>)>>]_vars

\* C28 (amended): pressing slot 0 issues press(CONTROL), press(C),
\* release(CONTROL), release(C), all four in the press phase; releasing the
\* key issues release(CONTROL), release(C), release(CONTROL), release(C),
\* and no step of the macro raises
C28_CopyOnPress ==
    [][/\ C28_Pressed
            => /\ hid' = <<Hid("press", <<"CONTROL">>), Hid("press", <<"C">>),
                           Hid("release", <<"CONTROL">>), Hid("release", <<"C">>)>>
               /\ pc' = "retrigger"
       /\ C28_Released
            => /\ hid' = <<Hid("release", <<"CONTROL">>), Hid("release", <<"C">>),
                           Hid("release", <<"CONTROL">>), Hid("release", <<"C">>)>>
               /\ pc' = "retrigger"]_vars

\* the key was pressed and released again; the release phase has run
C28_PressedAndReleased ==
    /\ pc = "retrigger"
    /\ 1 \notin held
    /\ keys[1].steps = C28_Copy
    /\ Len(hid) = 4
    /\ hid[1] = Hid("release", <<"CONTROL">>)

----------------------------------------------------------------------------
(* C29: nothing stays pressed after the release phase and the continuations *)

\* key 1 is up, so every press of it has had its release-phase run, and no
\* deferred continuation is waiting
C29_AllRun ==
    /\ pc \in LoopPcs
    /\ held = {}
    /\ delayed_macros = <<>>

\* C29: once the release-phase run for a key press has been made and every
\* deferred continuation spawned by that press has executed, no keyboard key
\* pressed by the macro remains held
C29_NothingHeld == C29_AllRun => down = {}

\* the instruction list holds a negative delay
C29_Defers(steps) ==
    \E j \in 1..Len(steps) : steps[j].op = "delay" /\ steps[j].val < 0

\* C29 (part that holds): the same for the macros without a deferred step
C29_NothingHeldUndeferred ==
    (C29_AllRun /\ ~C29_Defers(keys[1].steps)) => down = {}

\* C29: the key was tapped, the continuation of [A, -1, C] ran after the
\* release phase and C stays pressed
C29_LeftDown == C29_AllRun /\ down = {"C"}

----------------------------------------------------------------------------
(* C30: the bindings a group refresh leaves *)

\* the node under id c of the store is a group, a macro
C30_IsNode(c, type) ==
    /\ c \in DOMAIN macro_store
    /\ JsonLoads(macro_store[c]).valid
    /\ JsonLoads(macro_store[c]).type = type

\* slot i is bound as entry i of the content of group g asks: open_group with
\* the child's id for a group, run_macro with the child's id and instructions
\* for a macro, no callback for false and for an entry that is not there
C30_SlotBound(g, i) ==
    IF i > Len(g.content) THEN keys[i].func = "none"
    ELSE LET c == g.content[i] IN
         /\ c = Blank => keys[i].func = "none"
         /\ (c # Blank /\ C30_IsNode(c, "group"))
                => (keys[i].func = "open_group" /\ keys[i].id = c)
         /\ (c # Blank /\ C30_IsNode(c, "macro"))
                => /\ keys[i].func = "run_macro"
                   /\ keys[i].id = c
                   /\ keys[i].steps = JsonLoads(macro_store[c]).steps

\* the bindings are those of the group on top of the stack
C30_Bound ==
    C30_IsNode(group_stack[Len(group_stack)], "group")
        => LET g == JsonLoads(macro_store[group_stack[Len(group_stack)]])
           IN  /\ \A i \in Slots : C30_SlotBound(g, i)
               /\ enc = g.encoder

\* a loop step refreshes the group: the user opened or closed a group or went
\* to the root, or the host ended a transfer; the program runs on
C30_Refreshed ==
    /\ pc' \in LoopPcs
    /\ \/ calls' \cap {"open_group", "close_group", "go_to_root"} # {}
       \/ pc = "serial" /\ req' = Payload("set_macros", "end", NoField)

\* C30: after every group refresh (startup, open_group, close_group at depth
\* above 1, go_to_root, set_macros end) every key slot is bound to open_group
\* with the child's id if its content entry is a Group, to run_macro with the
\* child's id and instructions if it is a Macro, to no callback if the entry
\* is false or absent, and the three encoder bindings are those of the
\* encoder field of the group on top of the stack
C30_BoundAfterRefresh ==
    C30_Bound /\ [][C30_Refreshed => C30_Bound']_vars

\* C30 (part that holds): the same for the refreshes that raise nothing
C30_BoundAfterCompletedRefresh ==
    C30_Bound /\ [][(C30_Refreshed /\ ~raised') => C30_Bound']_vars

\* C30: the program runs on with key 1 unbound over a child that is a group
C30_GroupUnbound ==
    /\ pc \in LoopPcs
    /\ group_stack = <<"0">>
    /\ C30_IsNode("0", "group")
    /\ C30_IsNode("1", "group")
    /\ keys[1].func = "none"

----------------------------------------------------------------------------
(* C31: what a deferred continuation executes *)

\* the main loop finds the first deferred entry due and runs it
C31_Runs ==
    /\ pc = "delayed" /\ pc' # "delayed"
    /\ delayed_macros # <<>>
    /\ now >= Head(delayed_macros).due

\* the run of the instruction list that recorded the first entry, from the
\* step after its delay marker
C31_Recorded ==
    LET item == Head(delayed_macros)
    IN  RunMacro([App EXCEPT !.delayed = Tail(delayed_macros)],
                 item.id, item.from, item.start, item.pressed)

\* the entry was recorded for the node of a macro (a key's sequence), or for
\* the open group (a sequence of the encoder)
C31_FromKey ==
    /\ Head(delayed_macros).id \in DOMAIN macro_store
    /\ JsonLoads(macro_store[Head(delayed_macros).id]).steps
          = Head(delayed_macros).from

\* C31: when a deferred continuation runs, the steps it executes are exactly
\* the steps of the instruction sequence that recorded it, starting at the
\* step after the delay marker, for the sequences bound to keys and for the
\* sequences bound to the encoder alike
C31_ContinuationRunsRecorder ==
    [][C31_Runs => /\ hid' = C31_Recorded.hid
                   /\ calls' = C31_Recorded.calls
                   /\ delayed_macros' = C31_Recorded.delayed
                   /\ pc' = "keyevent"]_vars

\* C31 (part that holds): the same for the continuations of a key's macro
C31_KeyContinuationRunsRecorder ==
    [][(C31_Runs /\ C31_FromKey)
          => /\ hid' = C31_Recorded.hid
             /\ calls' = C31_Recorded.calls
             /\ delayed_macros' = C31_Recorded.delayed
             /\ pc' = "keyevent"]_vars

\* C31: the continuation of the encoder's [A, -1, C] is due and will run the
\* content of the open group in its place
C31_EncoderContinuationDue ==
    /\ pc = "delayed"
    /\ delayed_macros # <<>>
    /\ now >= Head(delayed_macros).due
    /\ Head(delayed_macros).from = <<Kc("A"), Delay(-1), Kc("C")>>
    /\ JsonLoads(macro_store[Head(delayed_macros).id]).type = "group"

----------------------------------------------------------------------------
(* C32: navigation and the deferred queue *)

\* q1 is q2 with zero or more entries left out, the order kept
RECURSIVE C32_Within(_, _)
C32_Within(q1, q2) ==
    IF q1 = <<>> THEN TRUE
    ELSE IF q2 = <<>> THEN FALSE
    ELSE IF Head(q1) = Head(q2) THEN C32_Within(Tail(q1), Tail(q2))
    ELSE C32_Within(q1, Tail(q2))

\* the loop step calls open_group (with the key down), close_group above
\* depth 1 or go_to_root
C32_Navigates ==
    calls' \cap {"open_group", "close_group", "go_to_root"} # {}

\* the loop step finds the first entry due
C32_Due ==
    /\ pc = "delayed" /\ pc' # "delayed"
    /\ delayed_macros # <<>>
    /\ now >= Head(delayed_macros).due

\* the entries pending when the step navigates: all of them, but for the
\* one the step itself has popped to run it
C32_Pending == IF C32_Due THEN Tail(delayed_macros) ELSE delayed_macros

\* C32: open_group, close_group and go_to_root leave the deferred queue
\* unchanged: a continuation pending before the navigation is still pending
\* afterwards with the same node id, start index and due time; it leaves the
\* queue in no step but the one that finds it due, and that step takes it
\* off and runs it
C32_NavigationKeepsQueue ==
    [][/\ C32_Navigates => C32_Within(C32_Pending, delayed_macros')
       /\ ~C32_Due => C32_Within(delayed_macros, delayed_macros')
       /\ C32_Due => /\ C32_Within(Tail(delayed_macros), delayed_macros')
                     /\ ~C32_Within(delayed_macros, delayed_macros')]_vars

\* the user went to the root while the continuation of the key's macro
\* [A, -1, C] was pending; it is pending still
C32_PendingAfterGoToRoot ==
    /\ pc = "connect"
    /\ "go_to_root" \in calls
    /\ delayed_macros # <<>>
    /\ Head(delayed_macros).from = <<Kc("A"), Delay(-1), Kc("C")>>
    /\ Head(delayed_macros).id = "1"

----------------------------------------------------------------------------
(* C33: user events while a transfer is under way *)

\* the host has sent set_macros "start" and not yet the matching "end"
C33_Window == xfer.phase = "open"

\* the main loop ends with an error nobody handles
C33_Dies == pc # "crashed" /\ pc' = "crashed"

\* C33: between a set_macros "start" and the matching "end" neither a key
\* press on a bound slot, nor an encoder event, nor a deferred continuation
\* becoming due makes the main loop end with an unhandled error
C33_LoopSurvivesWindow ==
    [][(C33_Window /\ pc \in {"delayed", "keyevent", "encoder"}) => ~C33_Dies]_vars

\* C33 (part that holds): in the window the handling of the serial line ends
\* the loop in no case, its errors are caught
C33_SerialSurvivesWindow ==
    [][(C33_Window /\ pc \in {"connect", "serial"}) => ~C33_Dies]_vars

\* C33: the loop has ended in the window on a key press
C33_DiedOnKey ==
    /\ pc = "crashed" /\ C33_Window /\ held # {}

\* C33 for the deferred continuations alone; it fails as well
C33_Continuation ==
    [][(C33_Window /\ pc = "delayed") => ~C33_Dies]_vars

\* C33 for the encoder events alone; it fails as well
C33_Encoder ==
    [][(C33_Window /\ pc = "encoder") => ~C33_Dies]_vars

----------------------------------------------------------------------------
(* C34: set_settings and the settings in memory *)

\* the loop step that handles a set_settings request with a content
C34_SetSettings ==
    /\ pc = "serial"
    /\ req'.json
    /\ req'.command = "set_settings"
    /\ req'.content # NoField

\* the loop step that handles a get_settings request
C34_GetSettings ==
    /\ pc = "serial"
    /\ req'.json
    /\ req'.command = "get_settings"

\* the program starts: code.py runs from its first line
C34_Starts == pc \in {"hard_reset", "soft_reset"}

====
